---- MODULE Spec2Model ----
(***************************************************************************)
(* Pentagon runtime: the on-the-fly garbage collector (gc.c), the slot     *)
(* search of the object heap (heap.c) and the Go-style semaphore           *)
(* (semaphore.c), as state machines.                                       *)
(*                                                                         *)
(* Three specifications share the module:                                  *)
(*   SpecGC   - mutators running gc_new / gc_update / gc_wait / gc_wake    *)
(*              against the collector thread (gc_thread).                  *)
(*   SpecHeap - cores running gc_new, with heap_alloc's try-locked scan    *)
(*              of the lock regions of one pool.                           *)
(*   SpecSem  - threads running semaphore_acquire / semaphore_release on   *)
(*              one semaphore.                                             *)
(* Every specification leaves the variables of the other two untouched.    *)
(*                                                                         *)
(* A dereference of NULL is undefined behaviour.  The kernel either takes  *)
(* a page fault there (panic: nothing runs any more) or, when the page at  *)
(* address 0 is mapped, reads and writes the memory at address 0.  Init    *)
(* draws which of the two the machine does (nullMapped); index 0 of every  *)
(* per-object / per-descriptor function is the memory at address 0.        *)
(***************************************************************************)
EXTENDS Integers, Sequences, FiniteSets, TLC

\* ------------------------------------------------------------------ bounds
NObj == 3          \* slots of the pool in SpecGC
NSubpools == 4     \* subpools of the pool in SpecHeap (SUBPOOLS_COUNT is 512)
SlotsPerSubpool == 1
NMut == 2          \* mutator threads
MaxMutOps == 4     \* mutator operations in one run

NSemThr == 3       \* threads using the semaphore
MaxSemOps == 4     \* semaphore_acquire / semaphore_release calls in one run
MaxSemInit == 1    \* largest initial value of the semaphore
MaxPgOps == 3      \* heap_alloc / heap_find / sweep calls in one run
PgSlots == 3       \* slots of a pool that heap_alloc may hand out in one run
MaxJitOps == 5     \* CIL opcodes of one compiled method
MaxDirtyOps == 4   \* heap calls and stores in one run of the dirty-page iteration
NIterPools == 2     \* pools that heap_iterate_objects / _dirty_objects walk (POOL_COUNT is 26)
IterPasses == 2     \* times the dirty walk comes to a page table (SUBPOOLS_COUNT is 512)
MaxNest == 2       \* deepest nesting of preempt_disable around a call of gc_new / gc_update

NULL == 0
COLOR_BLUE == 2
POOL_COUNT == 26

Obj == 1..NObj
ObjN == 0..NObj            \* 0 is the memory at address 0
Mut == 1..NMut
GCThread == NMut + 1
NoThread == NULL
g_all_threads == [i \in 1..(NMut + 1) |-> i]
g_corelib == 1

VARIABLES
    \* ---- machine
    nullMapped,     \* TRUE: address 0 is mapped memory; FALSE: it faults
    panic,          \* the kernel took a fatal fault
    \* ---- gc.c
    color, fld, log_pointer, next, m_all_objects,
    m_color_black, m_color_white,
    gcl,            \* per-thread gc_local_data
    m_thread_count, m_roots, m_mark_stack,
    gpc, gi, last, swept,
    m_gc_running, m_gc_mutex, wake_waiting, done_waiting,
    mpc, mo, mnew, stack,
    preempt_count,  \* per thread: the nesting of scheduler_preempt_disable
    preempt_entry,  \* observer: preempt_count when the thread entered gc_new / gc_update
    wait_from,      \* observer: the cycles begun when the thread called gc_wait
    \* ---- observers of the collector (written, never read, by the program)
    mops, cycle, reachAtHarvest, reachAtStart, quiet, overwritten,
    bornBlack, bornInCycle, sweptNew,
    \* ---- heap.c: heap_alloc's locals and the region locks
    m_heap_locks, subpool_idx, last_lock_taken,
    stripe,         \* the lock striping last computed: its inputs and results
    iter_pool,      \* per thread: pool_idx of heap_iterate_objects / _dirty_objects
    \* ---- semaphore.c
    sem_value, sem_nwait, sem_lock, sem_waiters,
    wts,            \* the waiting_thread_t descriptors; wts[0] is address 0
    spc, sflag, swt, parked,
    \* ---- observers of the semaphore
    sem_init, sops, acq_done, rel_inc, rel_done, firstParks, deqLog, lateParks,
    \* ---- heap.c: the page tables of the object heap and the slots
    pg_pml3, pg_pml2, pg_pml1,  \* the present entries, as <<pool, index>>
    pg_dirty2, pg_dirty1,       \* the dirty PML2 / PML1 entries
    pg_live,                    \* the slots whose colour is not blue
    pg_locks, pg_palloc,        \* spinlock_try_lock / palloc calls so far
    \* ---- the last heap call: its arguments and results
    pg_op, pg_ops, ha_size, ha_pool, ha_res, hf_ptr, hf_res, cb_log,
    \* ---- the last heap_alloc that ran out of physical pages: the slot it was
    \* backing, the pages palloc had returned for it, the pointers given to pfree
    ha_oom, ha_got, ha_freed,
    \* ---- heap_iterate_dirty_objects in steps: where the walk is, and the
    \* objects stored to since their last callback
    dirty_iter,
    \* ---- the jitter: the evaluation stack, the emitted MIR, the error flag
    jit_stack, jit_code, jit_err, jit_ops

gcvars == <<color, fld, log_pointer, next, m_all_objects, m_color_black,
            m_color_white, gcl, m_thread_count, m_roots, m_mark_stack, gpc, gi,
            last, swept, m_gc_running, m_gc_mutex, wake_waiting, done_waiting,
            mpc, mo, mnew, stack, preempt_count, preempt_entry, wait_from,
            mops, cycle,
            reachAtHarvest, reachAtStart,
            quiet, overwritten, bornBlack, bornInCycle, sweptNew>>
hpvars == <<m_heap_locks, subpool_idx, last_lock_taken, iter_pool, stripe>>
\* what no action of SpecGC changes
semvars == <<sem_value, sem_nwait, sem_lock, sem_waiters, wts, spc, sflag, swt, parked,
             sem_init, sops, acq_done, rel_inc, rel_done, firstParks, deqLog,
             lateParks>>
pgvars == <<pg_pml3, pg_pml2, pg_pml1, pg_dirty2, pg_dirty1, pg_live, pg_locks,
            pg_palloc, pg_op, pg_ops, ha_size, ha_pool, ha_res, hf_ptr, hf_res, cb_log,
            ha_oom, ha_got, ha_freed, dirty_iter>>
jitvars == <<jit_stack, jit_code, jit_err, jit_ops>>
gcRest == <<nullMapped, hpvars, semvars, pgvars, jitvars>>
machvars == <<gcRest, panic>>
vars == <<machvars, gcvars>>

\* ------------------------------------------------------------------ helpers
RECURSIVE ListFrom(_, _, _)
\* the nodes reached from h through nxt, as a sequence (cut at a repeat)
ListFrom(h, nxt, seen) ==
    IF h = NULL \/ h \in seen THEN <<>>
    ELSE <<h>> \o ListFrom(nxt[h], nxt, seen \cup {h})

AllObjects == ListFrom(m_all_objects, next, {})
Range(s) == {s[i] : i \in 1..Len(s)}
AllObjectsSet == Range(AllObjects)

RECURSIVE Closure(_, _)
\* the objects reachable from the set r through the managed-pointer field
Closure(r, f) ==
    LET n == (r \cup {f[o] : o \in r}) \ {NULL}
    IN IF n = r THEN r ELSE Closure(n, f)

\* roots: the corelib root, every shadow stack, every snooped set, m_roots
Roots == ({g_corelib} \cup UNION {stack[t] : t \in Mut}
          \cup UNION {Range(gcl[t].snooped) : t \in Mut} \cup Range(m_roots))
Reachable == Closure(Roots, fld)

\* hmput(set, o, o): stb_ds keeps the keys in insertion order
hmput(s, o) == IF o \in Range(s) THEN s ELSE Append(s, o)

\* ------------------------------------------------------------ gc.c: state
LogAddr(t, pos) == t * 8 + pos + 1       \* &GCL->buffer[pos] of thread t

\* the state after boot over the slots D: the corelib object is allocated,
\* every other slot is blue, the collector thread has just been readied; pcs
\* gives each mutator's position
InitGCFrom(D, pcs) ==
    /\ color = [o \in D |-> IF o = g_corelib THEN 0
                            ELSE IF o = NULL THEN 0 ELSE COLOR_BLUE]
    /\ fld = [o \in D |-> NULL]
    /\ log_pointer = [o \in D |-> NULL]
    /\ next = [o \in D |-> NULL]
    /\ m_all_objects = g_corelib
    /\ m_color_black = 0
    /\ m_color_white = 1
    /\ gcl = [t \in Mut |-> [trace_on |-> FALSE, snoop |-> FALSE, alloc_color |-> 0,
                             buffer |-> <<>>, snooped |-> <<>>]]
    /\ m_thread_count = 0
    /\ m_roots = <<>>
    /\ m_mark_stack = <<>>
    /\ gpc = "g_lock"
    /\ gi = 0
    /\ last = NULL
    /\ swept = NULL
    /\ m_gc_running = TRUE
    /\ m_gc_mutex = NoThread
    /\ wake_waiting = FALSE
    /\ done_waiting = {}
    /\ mpc = pcs
    /\ mo = [t \in Mut |-> NULL]
    /\ mnew = [t \in Mut |-> NULL]
    /\ stack = [t \in Mut |-> {}]
    /\ preempt_entry = preempt_count
    /\ mops = 0
    /\ wait_from = [t \in Mut |-> 0]
    /\ cycle = 0
    /\ reachAtHarvest = {}
    /\ reachAtStart = {}
    /\ quiet = FALSE
    /\ overwritten = {}
    /\ bornBlack = [o \in D |-> TRUE]
    /\ bornInCycle = [o \in D |-> FALSE]
    /\ sweptNew = FALSE

\* the same with init_gc over and every mutator idle
InitGCOver(D) == InitGCFrom(D, [t \in Mut |-> "idle"])

\* no thread has preemption disabled
InitPreemptOff == preempt_count = [t \in Mut |-> 0]
InitGC == InitPreemptOff /\ InitGCOver(ObjN)

\* the collector is inside gc_collection_cycle
InCycle == gpc \in {"hs1", "hs2", "flip", "hs3", "drain", "corelib", "push_roots",
                    "mark", "hs4", "sweep_init", "sweep", "prep_free", "prep"}
\* handshake 3 is over and mark is not
AfterHs3BeforeMarkEnd == gpc \in {"drain", "corelib", "push_roots", "mark"}

\* a thread can be suspended at a safepoint unless preemption is disabled,
\* which gc_new and gc_update do from entry to return
AtSafepoint(t) ==
    mpc[t] \notin {"heap_scan", "heap_exit", "new_alloc", "new_link", "upd_store"}

Running == ~panic

histvars == <<mops, cycle, wait_from, reachAtHarvest, reachAtStart, quiet, overwritten,
              bornBlack, bornInCycle, sweptNew>>
collvars == <<m_thread_count, m_roots, m_mark_stack, gpc, gi, last, swept>>
condvars == <<m_gc_running, m_gc_mutex, wake_waiting, done_waiting>>
heapvars == <<color, fld, log_pointer, next, m_all_objects>>
preemptvars == <<preempt_count, preempt_entry>>
mutvars == <<mpc, mo, mnew, stack, preemptvars>>

\* ------------------------------------------------------- gc.c: the mutators
\* scheduler_preempt_disable / scheduler_preempt_enable: nestable, a counter
scheduler_preempt_disable(c) == c + 1
scheduler_preempt_enable_skipped(c) == c
scheduler_preempt_enable(c) == c - 1
PreemptEnter(t) ==
    /\ preempt_count' = [preempt_count EXCEPT ![t] = scheduler_preempt_disable(@)]
    /\ preempt_entry' = [preempt_entry EXCEPT ![t] = preempt_count[t]]
PreemptLeave(t) ==
    /\ preempt_count' = [preempt_count EXCEPT ![t] = scheduler_preempt_enable(@)]
    /\ UNCHANGED preempt_entry

\* the slot an uncontended heap_alloc returns: the first blue slot in address
\* order, NULL when the pool holds none
FirstBlue(S) ==
    IF \E o \in S : color[o] = COLOR_BLUE
    THEN CHOOSE o \in S : color[o] = COLOR_BLUE /\ \A p \in S : color[p] = COLOR_BLUE => o <= p
    ELSE NULL

\* the objects thread t can name: its shadow-stack slots and the corelib root
Acc(t) == stack[t] \cup {g_corelib}

\* gc_new, line 38-40: preempt_disable; o = heap_alloc(size)
GcNewAlloc(t) ==
    /\ Running /\ mpc[t] = "idle" /\ mops < MaxMutOps
    /\ PreemptEnter(t)
    /\ mo' = [mo EXCEPT ![t] = FirstBlue(Obj)]
    /\ mpc' = [mpc EXCEPT ![t] = "new_alloc"]
    /\ mops' = mops + 1
    /\ quiet' = FALSE
    /\ UNCHANGED <<machvars, heapvars, m_color_black, m_color_white, gcl, collvars,
                   condvars, mnew, stack, cycle, wait_from, reachAtHarvest, reachAtStart,
                   overwritten, bornBlack, bornInCycle, sweptNew>>

\* gc_new, line 41-46: o->next = NULL; o->color = alloc_color; o->next = head
GcNewColor(t) ==
    /\ Running /\ mpc[t] = "new_alloc"
    /\ IF mo[t] = NULL /\ ~nullMapped
       THEN /\ panic' = TRUE
            /\ UNCHANGED <<gcRest, color, next, mpc>>
       ELSE /\ color' = [color EXCEPT ![mo[t]] = gcl[t].alloc_color]
            /\ next' = [next EXCEPT ![mo[t]] = m_all_objects]
            /\ mpc' = [mpc EXCEPT ![t] = "new_link"]
            /\ UNCHANGED machvars
    /\ quiet' = FALSE
    /\ UNCHANGED <<fld, log_pointer, m_all_objects, m_color_black, m_color_white, gcl,
                   collvars, condvars, mo, mnew, preemptvars, stack, mops, cycle, wait_from, reachAtHarvest,
                   reachAtStart, overwritten, bornBlack, bornInCycle, sweptNew>>

\* gc_new, line 47-51: the compare-exchange on m_all_objects; return o
GcNewLink(t) ==
    /\ Running /\ mpc[t] = "new_link"
    /\ IF m_all_objects = next[mo[t]]
       THEN /\ m_all_objects' = mo[t]
            /\ stack' = [stack EXCEPT ![t] = @ \cup ({mo[t]} \ {NULL})]
            /\ mpc' = [mpc EXCEPT ![t] = "idle"]
            /\ bornBlack' = [bornBlack EXCEPT ![mo[t]] = (color[mo[t]] = m_color_black)]
            /\ bornInCycle' = [bornInCycle EXCEPT ![mo[t]] = InCycle]
            /\ PreemptLeave(t)
            /\ UNCHANGED next
       ELSE /\ next' = [next EXCEPT ![mo[t]] = m_all_objects]
            /\ UNCHANGED <<m_all_objects, stack, mpc, bornBlack, bornInCycle,
                           preemptvars>>
    /\ quiet' = FALSE
    /\ UNCHANGED <<machvars, color, fld, log_pointer, m_color_black, m_color_white, gcl,
                   collvars, condvars, mo, mnew, mops, cycle, wait_from, reachAtHarvest,
                   reachAtStart, overwritten, sweptNew>>

\* gc_update, line 57-77: the log-pointer barrier of thread t on object o.
\* The outer test is (o->log_pointer), the inner one (o->log_pointer == NULL).
BarrierLogs(t, o) ==
    /\ gcl[t].trace_on /\ color[o] = m_color_white
    /\ log_pointer[o] # NULL
    /\ log_pointer[o] = NULL

\* gc_update, line 55-77: preempt_disable; the barrier
GcUpdateBarrier(t, o, n) ==
    /\ Running /\ mpc[t] = "idle" /\ mops < MaxMutOps
    /\ PreemptEnter(t)
    /\ log_pointer' = IF BarrierLogs(t, o)
                      THEN [log_pointer EXCEPT ![o] = LogAddr(t, Len(gcl[t].buffer))]
                      ELSE log_pointer
    /\ mo' = [mo EXCEPT ![t] = o]
    /\ mnew' = [mnew EXCEPT ![t] = n]
    /\ mpc' = [mpc EXCEPT ![t] = "upd_store"]
    /\ mops' = mops + 1
    /\ quiet' = FALSE
    /\ UNCHANGED <<machvars, color, fld, next, m_all_objects, m_color_black,
                   m_color_white, gcl, collvars, condvars, stack, cycle, wait_from, reachAtHarvest,
                   reachAtStart, overwritten, bornBlack, bornInCycle, sweptNew>>

\* gc_update, line 79-85: write_field; snoop; preempt_enable
GcUpdateStore(t) ==
    /\ Running /\ mpc[t] = "upd_store"
    /\ PreemptLeave(t)
    /\ fld' = [fld EXCEPT ![mo[t]] = mnew[t]]
    /\ gcl' = IF gcl[t].snoop /\ mnew[t] # NULL
              THEN [gcl EXCEPT ![t].snooped = hmput(@, mnew[t])]
              ELSE gcl
    /\ mpc' = [mpc EXCEPT ![t] = "idle"]
    /\ overwritten' = IF AfterHs3BeforeMarkEnd /\ color[mo[t]] = m_color_white
                         /\ fld[mo[t]] # NULL
                      THEN overwritten \cup {fld[mo[t]]}
                      ELSE overwritten
    /\ quiet' = FALSE
    /\ UNCHANGED <<machvars, color, log_pointer, next, m_all_objects, m_color_black,
                   m_color_white, collvars, condvars, mo, mnew, stack, mops, cycle, wait_from,
                   reachAtHarvest, reachAtStart, bornBlack, bornInCycle, sweptNew>>

\* managed code loads a reference field into a shadow-stack slot (a plain load)
MutLoad(t, o) ==
    /\ Running /\ mpc[t] = "idle" /\ mops < MaxMutOps
    /\ fld[o] # NULL /\ fld[o] \notin stack[t]
    /\ stack' = [stack EXCEPT ![t] = @ \cup {fld[o]}]
    /\ mops' = mops + 1
    /\ quiet' = FALSE
    /\ UNCHANGED <<machvars, heapvars, m_color_black, m_color_white, gcl, collvars,
                   condvars, mpc, mo, mnew, preemptvars, cycle, wait_from, reachAtHarvest, reachAtStart,
                   overwritten, bornBlack, bornInCycle, sweptNew>>

\* managed code clears a shadow-stack slot
MutDrop(t, o) ==
    /\ Running /\ mpc[t] = "idle" /\ mops < MaxMutOps
    /\ stack' = [stack EXCEPT ![t] = @ \ {o}]
    /\ mops' = mops + 1
    /\ quiet' = FALSE
    /\ UNCHANGED <<machvars, heapvars, m_color_black, m_color_white, gcl, collvars,
                   condvars, mpc, mo, mnew, preemptvars, cycle, wait_from, reachAtHarvest, reachAtStart,
                   overwritten, bornBlack, bornInCycle, sweptNew>>

\* ------------------------------------------------------ gc.c: the conductor
\* conditional_signal(&m_gc_wake): the collector is the only thread that waits
\* on m_gc_wake; a signal with nobody waiting is lost
SignalWake ==
    IF wake_waiting
    THEN wake_waiting' = FALSE /\ gpc' = "g_relock"
    ELSE UNCHANGED <<wake_waiting, gpc>>

\* the collection cycles begun so far: gc_collection_cycle has been entered
CyclesBegun == cycle + (IF InCycle THEN 1 ELSE 0)

\* gc_wait, line 374: mutex_lock(&m_gc_mutex)
GcWaitLock(t) ==
    /\ Running /\ mpc[t] = "idle" /\ mops < MaxMutOps
    /\ m_gc_mutex = NoThread
    /\ m_gc_mutex' = t
    /\ mpc' = [mpc EXCEPT ![t] = "wait_wake"]
    /\ mops' = mops + 1
    /\ wait_from' = [wait_from EXCEPT ![t] = CyclesBegun]
    /\ UNCHANGED <<machvars, heapvars, m_color_black, m_color_white, gcl, collvars,
                   m_gc_running, wake_waiting, done_waiting, mo, mnew, preemptvars, stack, cycle,
                   reachAtHarvest, reachAtStart, quiet, overwritten, bornBlack,
                   bornInCycle, sweptNew>>

\* gc_conductor_wake, line 350-353: if (m_gc_running) return
AlreadyRunningNever == FALSE
AlreadyRunning == m_gc_running

\* gc_conductor_wake, line 349-358, called with the mutex held
GcWaitWake(t) ==
    /\ Running /\ mpc[t] = "wait_wake"
    /\ IF AlreadyRunning
       THEN UNCHANGED <<m_gc_running, wake_waiting, gpc>>
       ELSE m_gc_running' = TRUE /\ SignalWake
    /\ mpc' = [mpc EXCEPT ![t] = "wait_park"]
    /\ UNCHANGED <<machvars, heapvars, m_color_black, m_color_white, gcl,
                   m_thread_count, m_roots, m_mark_stack, gi, last, swept, m_gc_mutex,
                   done_waiting, mo, mnew, preemptvars, stack, histvars>>

\* gc_conductor_wait, line 365: conditional_wait(&m_gc_done, &m_gc_mutex)
GcWaitPark(t) ==
    /\ Running /\ mpc[t] = "wait_park"
    /\ m_gc_mutex' = NoThread
    /\ done_waiting' = done_waiting \cup {t}
    /\ mpc' = [mpc EXCEPT ![t] = "wait_cond"]
    /\ UNCHANGED <<machvars, heapvars, m_color_black, m_color_white, gcl, collvars,
                   m_gc_running, wake_waiting, mo, mnew, preemptvars, stack, histvars>>

\* gc_conductor_wait, line 365-366: woken, the mutex re-taken, while (m_gc_running)
GcWaitRelock(t) ==
    /\ Running /\ mpc[t] = "wait_relock"
    /\ m_gc_mutex = NoThread
    /\ m_gc_mutex' = t
    /\ mpc' = [mpc EXCEPT ![t] = IF m_gc_running THEN "wait_park" ELSE "wait_unlock"]
    /\ UNCHANGED <<machvars, heapvars, m_color_black, m_color_white, gcl, collvars,
                   m_gc_running, wake_waiting, done_waiting, mo, mnew, preemptvars, stack, histvars>>

\* gc_wait, line 377: mutex_unlock(&m_gc_mutex); return
GcWaitUnlock(t) ==
    /\ Running /\ mpc[t] = "wait_unlock"
    /\ m_gc_mutex' = NoThread
    /\ mpc' = [mpc EXCEPT ![t] = "idle"]
    /\ wait_from' = [wait_from EXCEPT ![t] = 0]
    /\ UNCHANGED <<machvars, heapvars, m_color_black, m_color_white, gcl, collvars,
                   m_gc_running, wake_waiting, done_waiting, mo, mnew, preemptvars, stack,
                   mops, cycle, reachAtHarvest, reachAtStart, quiet, overwritten,
                   bornBlack, bornInCycle, sweptNew>>

\* gc_wake -> gc_conductor_wake, line 350: the load of m_gc_running, no mutex held
GcWakeCheck(t) ==
    /\ Running /\ mpc[t] = "idle" /\ mops < MaxMutOps
    /\ mpc' = [mpc EXCEPT ![t] = IF AlreadyRunning THEN "idle" ELSE "wake_set"]
    /\ mops' = mops + 1
    /\ UNCHANGED <<machvars, heapvars, m_color_black, m_color_white, gcl, collvars,
                   condvars, mo, mnew, preemptvars, stack, cycle, wait_from, reachAtHarvest, reachAtStart,
                   quiet, overwritten, bornBlack, bornInCycle, sweptNew>>

\* gc_conductor_wake, line 356-357: m_gc_running = true; conditional_signal
GcWakeSet(t) ==
    /\ Running /\ mpc[t] = "wake_set"
    /\ m_gc_running' = TRUE
    /\ SignalWake
    /\ mpc' = [mpc EXCEPT ![t] = "idle"]
    /\ UNCHANGED <<machvars, heapvars, m_color_black, m_color_white, gcl,
                   m_thread_count, m_roots, m_mark_stack, gi, last, swept, m_gc_mutex,
                   done_waiting, mo, mnew, preemptvars, stack, histvars>>

\* gc_thread, line 389: mutex_lock(&m_gc_mutex)
GcLock ==
    /\ Running /\ gpc = "g_lock"
    /\ m_gc_mutex = NoThread
    /\ m_gc_mutex' = GCThread
    /\ gpc' = "g_clear"
    /\ UNCHANGED <<machvars, heapvars, m_color_black, m_color_white, gcl,
                   m_thread_count, m_roots, m_mark_stack, gi, last, swept,
                   m_gc_running, wake_waiting, done_waiting, mutvars, histvars>>

\* gc_conductor_next, line 339: m_gc_running = false
GcClear ==
    /\ Running /\ gpc = "g_clear"
    /\ m_gc_running' = FALSE
    /\ gpc' = "g_bcast"
    /\ UNCHANGED <<machvars, heapvars, m_color_black, m_color_white, gcl,
                   m_thread_count, m_roots, m_mark_stack, gi, last, swept,
                   m_gc_mutex, wake_waiting, done_waiting, mutvars, histvars>>

\* gc_conductor_next, line 340: conditional_broadcast(&m_gc_done)
GcBroadcast ==
    /\ Running /\ gpc = "g_bcast"
    /\ done_waiting' = {}
    /\ mpc' = [t \in Mut |-> IF t \in done_waiting THEN "wait_relock" ELSE mpc[t]]
    /\ gpc' = "g_wait"
    /\ UNCHANGED <<machvars, heapvars, m_color_black, m_color_white, gcl,
                   m_thread_count, m_roots, m_mark_stack, gi, last, swept,
                   m_gc_running, m_gc_mutex, wake_waiting, mo, mnew, preemptvars, stack, histvars>>

\* gc_conductor_next, line 342: conditional_wait(&m_gc_wake, &m_gc_mutex)
GcWaitForWake ==
    /\ Running /\ gpc = "g_wait"
    /\ m_gc_mutex' = NoThread
    /\ wake_waiting' = TRUE
    /\ gpc' = "g_parked"
    /\ UNCHANGED <<machvars, heapvars, m_color_black, m_color_white, gcl,
                   m_thread_count, m_roots, m_mark_stack, gi, last, swept,
                   m_gc_running, done_waiting, mutvars, histvars>>

\* gc_conductor_next, line 342-343: woken, the mutex re-taken, while (!m_gc_running)
GcRelock ==
    /\ Running /\ gpc = "g_relock"
    /\ m_gc_mutex = NoThread
    /\ m_gc_mutex' = GCThread
    /\ gpc' = IF m_gc_running THEN "g_unlock" ELSE "g_wait"
    /\ UNCHANGED <<machvars, heapvars, m_color_black, m_color_white, gcl,
                   m_thread_count, m_roots, m_mark_stack, gi, last, swept,
                   m_gc_running, wake_waiting, done_waiting, mutvars, histvars>>

\* gc_thread, line 391: mutex_unlock(&m_gc_mutex)
GcUnlock ==
    /\ Running /\ gpc = "g_unlock"
    /\ m_gc_mutex' = NoThread
    /\ gpc' = "begin"
    /\ UNCHANGED <<machvars, heapvars, m_color_black, m_color_white, gcl,
                   m_thread_count, m_roots, m_mark_stack, gi, last, swept,
                   m_gc_running, wake_waiting, done_waiting, mutvars, histvars>>

\* --------------------------------------------------- gc.c: the collection cycle
\* the end of a for (i < m_thread_count) loop: fall through to pc nxt
LoopNext(nxt) ==
    IF gi + 1 >= m_thread_count
    THEN gpc' = nxt /\ gi' = 0
    ELSE gpc' = gpc /\ gi' = gi + 1

\* one iteration of a handshake loop: the collector itself is skipped, any
\* other thread is suspended at a safepoint, its gc_local_data set, and resumed
Handshake(here, nxt, upd(_)) ==
    /\ Running /\ gpc = here
    /\ LET t == g_all_threads[gi + 1] IN
       IF t = GCThread
       THEN UNCHANGED gcl
       ELSE /\ AtSafepoint(t)
            /\ gcl' = [gcl EXCEPT ![t] = upd(@)]
    /\ LoopNext(nxt)

\* initiate_collection_cycle, line 102: m_thread_count = arrlen(g_all_threads)
GcCycleBegin ==
    /\ Running /\ gpc = "begin"
    /\ m_thread_count' = Len(g_all_threads)
    /\ gi' = 0
    /\ gpc' = "hs1"
    /\ reachAtStart' = Reachable
    /\ quiet' = TRUE
    /\ overwritten' = {}
    /\ bornInCycle' = [o \in ObjN |-> FALSE]
    /\ UNCHANGED <<machvars, heapvars, m_color_black, m_color_white, gcl, m_roots,
                   m_mark_stack, last, swept, condvars, mutvars, mops, cycle, wait_from,
                   reachAtHarvest, bornBlack, sweptNew>>

SetSnoop(g) == [g EXCEPT !.snoop = TRUE]
SetTraceOn(g) == [g EXCEPT !.trace_on = TRUE]
SetAllocColor(g) == [g EXCEPT !.alloc_color = m_color_black, !.snoop = FALSE]
ClearTraceOnKept(g) == g
ClearTraceOn(g) == [g EXCEPT !.trace_on = FALSE]

\* initiate_collection_cycle, line 103-110: the first handshake
GcHandshake1 ==
    /\ Handshake("hs1", "hs2", SetSnoop)
    /\ UNCHANGED <<machvars, heapvars, m_color_black, m_color_white, m_thread_count,
                   m_roots, m_mark_stack, last, swept, condvars, mutvars, histvars>>

\* initiate_collection_cycle, line 117-124: the second handshake
GcHandshake2 ==
    /\ Handshake("hs2", "flip", SetTraceOn)
    /\ UNCHANGED <<machvars, heapvars, m_color_black, m_color_white, m_thread_count,
                   m_roots, m_mark_stack, last, swept, condvars, mutvars, histvars>>

\* get_roots, line 131-132: the colour flip, no thread suspended
GcFlip ==
    /\ Running /\ gpc = "flip"
    /\ m_color_black' = 1 - m_color_black
    /\ m_color_white' = 1 - m_color_white
    /\ gpc' = "hs3"
    /\ UNCHANGED <<machvars, heapvars, gcl, m_thread_count, m_roots, m_mark_stack, gi,
                   last, swept, condvars, mutvars, histvars>>

\* get_roots, line 136-149: the third handshake
GcHandshake3 ==
    /\ Handshake("hs3", "drain", SetAllocColor)
    /\ UNCHANGED <<machvars, heapvars, m_color_black, m_color_white, m_thread_count,
                   m_roots, m_mark_stack, last, swept, condvars, mutvars, histvars>>

RECURSIVE PutAll(_, _)
PutAll(s, xs) == IF xs = <<>> THEN s ELSE PutAll(hmput(s, Head(xs)), Tail(xs))

\* get_roots, line 155-165: copy and free one thread's snooped set
GcDrain ==
    /\ Running /\ gpc = "drain"
    /\ LET t == g_all_threads[gi + 1] IN
       IF t = GCThread
       THEN UNCHANGED <<gcl, m_roots>>
       ELSE /\ m_roots' = PutAll(m_roots, gcl[t].snooped)
            /\ gcl' = [gcl EXCEPT ![t].snooped = <<>>]
    /\ LoopNext("corelib")
    /\ UNCHANGED <<machvars, heapvars, m_color_black, m_color_white, m_thread_count,
                   m_mark_stack, last, swept, condvars, mutvars, histvars>>

\* get_roots, line 172: hmput(m_roots, g_corelib)
GcCorelibRoot ==
    /\ Running /\ gpc = "corelib"
    /\ m_roots' = hmput(m_roots, g_corelib)
    /\ gpc' = "push_roots"
    /\ reachAtHarvest' = Closure(Roots \cup {g_corelib}, fld)
    /\ UNCHANGED <<machvars, heapvars, m_color_black, m_color_white, gcl,
                   m_thread_count, m_mark_stack, gi, last, swept, condvars, mutvars,
                   mops, cycle, wait_from, reachAtStart, quiet, overwritten, bornBlack,
                   bornInCycle, sweptNew>>

\* trace_heap, line 211-214: push every root
GcPushRoots ==
    /\ Running /\ gpc = "push_roots"
    /\ m_mark_stack' = m_mark_stack \o m_roots
    /\ gpc' = "mark"
    /\ UNCHANGED <<machvars, heapvars, m_color_black, m_color_white, gcl,
                   m_thread_count, m_roots, gi, last, swept, condvars, mutvars,
                   histvars>>

\* trace, line 190-191: size_t count = 0; System_Object* temp[count]
TraceReplica(o) == <<>>

\* trace, line 179-204: what trace(o) pushes for a white o
TracePushes(o) ==
    IF log_pointer[o] = NULL
    THEN (IF log_pointer[o] = NULL THEN TraceReplica(o) ELSE <<>>)
    ELSE <<>>

\* trace_heap, line 216-219 and trace: pop one object and trace it
GcMark ==
    /\ Running /\ gpc = "mark"
    /\ IF Len(m_mark_stack) = 0
       THEN /\ gpc' = "hs4"
            /\ UNCHANGED <<m_mark_stack, color>>
       ELSE LET o == m_mark_stack[Len(m_mark_stack)]
                rest == SubSeq(m_mark_stack, 1, Len(m_mark_stack) - 1) IN
            /\ gpc' = gpc
            /\ IF color[o] = m_color_white
               THEN /\ m_mark_stack' = rest \o TracePushes(o)
                    /\ color' = [color EXCEPT ![o] = m_color_black]
               ELSE /\ m_mark_stack' = rest
                    /\ UNCHANGED color
    /\ UNCHANGED <<machvars, fld, log_pointer, next, m_all_objects, m_color_black,
                   m_color_white, gcl, m_thread_count, m_roots, gi, last, swept,
                   condvars, mutvars, histvars>>

\* sweep, line 224-232: the fourth handshake
GcHandshake4 ==
    /\ Handshake("hs4", "sweep_init", ClearTraceOn)
    /\ UNCHANGED <<machvars, heapvars, m_color_black, m_color_white, m_thread_count,
                   m_roots, m_mark_stack, last, swept, condvars, mutvars, histvars>>

\* sweep, line 235-236: last = NULL; swept = m_all_objects
GcSweepInit ==
    /\ Running /\ gpc = "sweep_init"
    /\ last' = NULL
    /\ swept' = m_all_objects
    /\ gpc' = "sweep"
    /\ UNCHANGED <<machvars, heapvars, m_color_black, m_color_white, gcl,
                   m_thread_count, m_roots, m_mark_stack, gi, condvars, mutvars,
                   histvars>>

Hang == 0 - 1
Fault == 0 - 2
RECURSIVE FindLast(_, _, _)
\* sweep, line 252-255: do { last = first_now; first_now = first_now->next; }
\* while (first_now != swept).  The result is last, Hang when the walk never
\* meets swept, Fault when it reads through NULL and address 0 is not mapped.
FindLast(first_now, target, fuel) ==
    IF first_now = NULL /\ ~nullMapped THEN Fault
    ELSE IF next[first_now] = target THEN first_now
    ELSE IF fuel = 0 THEN Hang
    ELSE FindLast(next[first_now], target, fuel - 1)

\* sweep, line 237-279: one iteration of the loop over the all-objects list
GcSweepStep ==
    /\ Running /\ gpc = "sweep"
    /\ IF swept = NULL
       THEN /\ gpc' = "prep_free"
            /\ UNCHANGED <<panic, color, next, m_all_objects, last, swept, sweptNew>>
       ELSE IF color[swept] = m_color_white
       THEN LET l == IF last # NULL THEN last
                     ELSE IF m_all_objects = swept THEN NULL
                     ELSE FindLast(m_all_objects, swept, NObj + 1) IN
            IF l = Fault
            THEN /\ panic' = TRUE
                 /\ UNCHANGED <<gpc, color, next, m_all_objects, last, swept, sweptNew>>
            ELSE IF l = Hang
            THEN /\ gpc' = "hang"
                 /\ UNCHANGED <<panic, color, next, m_all_objects, last, swept, sweptNew>>
            ELSE /\ IF l = NULL /\ last = NULL
                    THEN m_all_objects' = next[swept] /\ UNCHANGED next
                    ELSE next' = [next EXCEPT ![l] = next[swept]]
                         /\ UNCHANGED m_all_objects
                 /\ last' = l
                 /\ color' = [color EXCEPT ![swept] = COLOR_BLUE]
                 /\ swept' = next[swept]
                 /\ sweptNew' = (sweptNew \/ bornInCycle[swept])
                 /\ UNCHANGED <<panic, gpc>>
       ELSE /\ last' = swept
            /\ swept' = next[swept]
            /\ UNCHANGED <<panic, gpc, color, next, m_all_objects, sweptNew>>
    /\ UNCHANGED <<gcRest, fld, log_pointer, m_color_black, m_color_white, gcl,
                   m_thread_count, m_roots, m_mark_stack, gi, condvars, mutvars, mops,
                   cycle, wait_from, reachAtHarvest, reachAtStart, quiet, overwritten, bornBlack,
                   bornInCycle>>

\* prepare_next_collection, line 283: hmfree(m_roots)
GcPrepFree ==
    /\ Running /\ gpc = "prep_free"
    /\ m_roots' = <<>>
    /\ gpc' = "prep"
    /\ gi' = 0
    /\ UNCHANGED <<machvars, heapvars, m_color_black, m_color_white, gcl,
                   m_thread_count, m_mark_stack, last, swept, condvars, mutvars,
                   histvars>>

\* prepare_next_collection, line 285-297: clear the log pointers of one
\* thread's buffer and free the buffer; the last iteration ends the cycle
GcPrep ==
    /\ Running /\ gpc = "prep"
    /\ LET t == g_all_threads[gi + 1] IN
       IF t = GCThread
       THEN UNCHANGED <<gcl, log_pointer>>
       ELSE /\ log_pointer' = [o \in ObjN |-> IF o \in Range(gcl[t].buffer)
                                             THEN NULL ELSE log_pointer[o]]
            /\ gcl' = [gcl EXCEPT ![t].buffer = <<>>]
    /\ LoopNext("g_lock")
    /\ cycle' = IF gi + 1 >= m_thread_count THEN cycle + 1 ELSE cycle
    /\ UNCHANGED <<machvars, color, fld, next, m_all_objects, m_color_black,
                   m_color_white, m_thread_count, m_roots, m_mark_stack, last, swept,
                   condvars, mutvars, mops, wait_from, reachAtHarvest, reachAtStart,
                   quiet, overwritten, bornBlack, bornInCycle, sweptNew>>

InitMachine == nullMapped \in BOOLEAN /\ panic = FALSE

\* no lock striping has been computed
NoStripe == [cpus |-> 0, len |-> 0, regions |-> 0, a |-> <<0, 0>>, b |-> <<0, 0>>,
             ia |-> 0, ib |-> 0]
\* heap_alloc is not running
InitHeapIdle ==
    /\ m_heap_locks = <<>>
    /\ subpool_idx = [t \in Mut |-> 0]
    /\ last_lock_taken = [t \in Mut |-> 0 - 1]
    /\ iter_pool = [t \in Mut |-> 0]
    /\ stripe = NoStripe

NextMut ==
    \E t \in Mut :
        \/ GcNewAlloc(t) \/ GcNewColor(t) \/ GcNewLink(t)
        \/ \E o \in Acc(t), n \in stack[t] \cup {NULL} : GcUpdateBarrier(t, o, n)
        \/ GcUpdateStore(t)
        \/ \E o \in Acc(t) : MutLoad(t, o)
        \/ \E o \in stack[t] : MutDrop(t, o)
        \/ GcWaitLock(t) \/ GcWaitWake(t) \/ GcWaitPark(t) \/ GcWaitRelock(t)
        \/ GcWaitUnlock(t)
        \/ GcWakeCheck(t) \/ GcWakeSet(t)

NextCollector ==
    \/ GcLock \/ GcClear \/ GcBroadcast \/ GcWaitForWake \/ GcRelock \/ GcUnlock
    \/ GcCycleBegin \/ GcHandshake1 \/ GcHandshake2 \/ GcFlip \/ GcHandshake3
    \/ GcDrain \/ GcCorelibRoot \/ GcPushRoots \/ GcMark \/ GcHandshake4
    \/ GcSweepInit \/ GcSweepStep \/ GcPrepFree \/ GcPrep

\* the semaphore is not in use
InitSemIdle ==
    /\ sem_value = 0 /\ sem_nwait = 0 /\ sem_lock = NoThread /\ sem_waiters = NULL
    /\ wts = <<>> /\ spc = <<>> /\ sflag = <<>> /\ swt = <<>> /\ parked = <<>>
    /\ sem_init = 0 /\ sops = 0 /\ acq_done = 0 /\ rel_inc = 0 /\ rel_done = 0
    /\ firstParks = <<>> /\ deqLog = <<>> /\ lateParks = FALSE

\* a pointer into the object heap is a pool and a byte offset in that pool;
\* the null pointer
NoObject == [pool |-> 0 - 1, off |-> 0]
\* the call at hand is no heap_alloc that ran out of physical pages
NoOom == ha_oom' = NoObject /\ ha_got' = {} /\ ha_freed' = <<>>
\* heap_iterate_dirty_objects is not running in steps
NoDirtyIter == [pc |-> "off", pos |-> <<0 - 1, 0, 0>>, pending |-> {}]
\* no heap function is being exercised
InitPagesIdle ==
    /\ pg_pml3 = {} /\ pg_pml2 = {} /\ pg_pml1 = {} /\ pg_dirty2 = {} /\ pg_dirty1 = {}
    /\ pg_live = {} /\ pg_locks = 0 /\ pg_palloc = 0 /\ pg_op = "none" /\ pg_ops = 0
    /\ ha_size = 0 /\ ha_pool = 0 /\ ha_res = NoObject /\ hf_ptr = NoObject
    /\ ha_oom = NoObject /\ ha_got = {} /\ ha_freed = <<>>
    /\ dirty_iter = NoDirtyIter
    /\ hf_res = NoObject
    /\ cb_log = <<>>

\* nothing is being compiled
InitJitIdle == jit_stack = <<>> /\ jit_code = <<>> /\ jit_err = FALSE /\ jit_ops = 0

InitSpecGC == InitMachine /\ InitGC /\ InitHeapIdle /\ InitSemIdle /\ InitPagesIdle /\ InitJitIdle
NextGC == NextMut \/ NextCollector
SpecGC == InitSpecGC /\ [][NextGC]_vars

\* ------------------------------------------------------------- GC claims
\* a collection cycle has just ended: the collector is back at the top of
\* gc_thread's loop, where the gc_done broadcast that releases gc_wait is sent
CycleEnded == gpc = "g_lock" /\ cycle > 0

\* C1: after a collection cycle every object that was reachable when the roots
\* were harvested (from the corelib root, a snooped set, a shadow stack, or
\* through a field of a reachable object) is black, still in the all-objects
\* list and not blue.
C1_NoReachableObjectSwept ==
    CycleEnded =>
        \A o \in reachAtHarvest :
            color[o] = m_color_black /\ o \in AllObjectsSet /\ color[o] # COLOR_BLUE

\* C2: an object Y whose reference was overwritten through gc_update in a white
\* object X after handshake 3 and before the end of mark is black and in the
\* all-objects list at the end of that cycle.
C2_PreImagePreserved ==
    CycleEnded =>
        \A y \in overwritten : color[y] = m_color_black /\ y \in AllObjectsSet

\* C3: every object is linked by gc_new with the colour the collector then
\* designates black, and no object allocated during a cycle is swept by it.
C3_BornBlack ==
    (\A o \in Obj : bornBlack[o]) /\ ~sweptNew

\* C4: with the mutators quiescent during the cycle, at its end the all-objects
\* list holds exactly the objects reachable at the start of the cycle and every
\* other slot is blue.
C4_GarbageReclaimed ==
    (CycleEnded /\ quiet) =>
        /\ AllObjectsSet = reachAtStart
        /\ \A o \in Obj \ reachAtStart : color[o] = COLOR_BLUE

\* the half of C4 the code keeps: the unreachable objects are unlinked and blue
C4_UnreachableAreFreed ==
    (CycleEnded /\ quiet) =>
        \A o \in Obj \ reachAtStart : color[o] = COLOR_BLUE /\ o \notin AllObjectsSet

\* ------------------------------------------------------- heap.c: heap_alloc
\* SpecHeap: the mutators, one per core, run gc_new with heap_alloc's scan of
\* the subpools of one pool spelled out.  Page-table entries are materialised
\* on demand and a fresh page holds blue slots; the physical-page allocator
\* does not fail here.
cpu_count == NMut
HeapSlots == 0..(NSubpools * SlotsPerSubpool)
\* heap_alloc, line 145-148: the pool of a 64-byte request
pool_idx == 2
\* line 65: #define SUBPOOLS_PER_LOCK (512 / get_cpu_count())
SUBPOOLS_PER_LOCK == NSubpools \div cpu_count
\* line 172, 390, 479:
\* &m_heap_locks[pool_idx * POOL_COUNT + subpool_idx / SUBPOOLS_PER_LOCK]
LockIndexOf(p, sp) == p * POOL_COUNT + (sp \div SUBPOOLS_PER_LOCK)
LockIndex(sp) == LockIndexOf(pool_idx, sp)
\* the pools whose locks are kept: the one heap_alloc searches and the next
IterPools == pool_idx..(pool_idx + NIterPools - 1)
LockIndices == {LockIndexOf(p, sp) : p \in IterPools, sp \in 0..(NSubpools - 1)}
\* spinlock_unlock(l)
spinlock_unlock_lost(locks, l) == locks
spinlock_unlock(locks, l) == [locks EXCEPT ![l] = NoThread]
\* the slots of subpool sp, in address order
SlotsOf(sp) == {sp * SlotsPerSubpool + k : k \in 1..SlotsPerSubpool}
NoLock == 0 - 1

InitHeap ==
    /\ m_heap_locks = [l \in LockIndices |-> NoThread]
    /\ subpool_idx = [t \in Mut |-> 0]
    /\ last_lock_taken = [t \in Mut |-> NoLock]
    /\ iter_pool = [t \in Mut |-> 0]
    /\ stripe = NoStripe

\* gc_new line 38-40 and heap_alloc line 136-157: the size check passes, the
\* locals are set up
HeapAllocEnter(t) ==
    /\ Running /\ mpc[t] = "idle" /\ mops < MaxMutOps
    /\ PreemptEnter(t)
    /\ subpool_idx' = [subpool_idx EXCEPT ![t] = 0]
    /\ last_lock_taken' = [last_lock_taken EXCEPT ![t] = NoLock]
    /\ mo' = [mo EXCEPT ![t] = NULL]
    /\ mpc' = [mpc EXCEPT ![t] = "heap_scan"]
    /\ mops' = mops + 1
    /\ quiet' = FALSE
    /\ UNCHANGED <<nullMapped, semvars, pgvars, jitvars, panic, stripe, m_heap_locks, iter_pool, fld, log_pointer, m_color_black,
                   m_color_white, gcl, collvars, condvars, mnew, stack, cycle, wait_from,
                   reachAtHarvest, reachAtStart, overwritten, bornBlack, bornInCycle,
                   sweptNew, color, next, m_all_objects>>

\* heap_alloc, line 161-357: one iteration of the loop over the subpools
HeapAllocSubpool(t) ==
    /\ Running /\ mpc[t] = "heap_scan"
    /\ LET i == subpool_idx[t]
           first == (i % SUBPOOLS_PER_LOCK) = 0
           unlocked == IF first /\ last_lock_taken[t] # NoLock
                       THEN spinlock_unlock(m_heap_locks, last_lock_taken[t])
                       ELSE m_heap_locks
           li == LockIndex(i)
       IN
       IF i >= NSubpools
       THEN /\ mpc' = [mpc EXCEPT ![t] = "heap_exit"]
            /\ UNCHANGED <<m_heap_locks, subpool_idx, last_lock_taken, mo>>
       ELSE IF first /\ unlocked[li] # NoThread
       THEN \* spinlock_try_lock failed: skip the region
            /\ m_heap_locks' = unlocked
            /\ last_lock_taken' = [last_lock_taken EXCEPT ![t] = NoLock]
            /\ subpool_idx' = [subpool_idx EXCEPT ![t] = i + (SUBPOOLS_PER_LOCK - 1) + 1]
            /\ UNCHANGED <<mpc, mo>>
       ELSE /\ m_heap_locks' = IF first THEN [unlocked EXCEPT ![li] = t] ELSE unlocked
            /\ last_lock_taken' = IF first THEN [last_lock_taken EXCEPT ![t] = li]
                                  ELSE last_lock_taken
            /\ IF FirstBlue(SlotsOf(i)) # NULL
               THEN /\ mo' = [mo EXCEPT ![t] = FirstBlue(SlotsOf(i))]
                    /\ mpc' = [mpc EXCEPT ![t] = "heap_exit"]
                    /\ UNCHANGED subpool_idx
               ELSE /\ subpool_idx' = [subpool_idx EXCEPT ![t] = i + 1]
                    /\ UNCHANGED <<mpc, mo>>
    /\ UNCHANGED <<nullMapped, semvars, pgvars, jitvars, panic, stripe, iter_pool, fld, log_pointer,
                   m_color_black, m_color_white,
                   gcl, collvars, condvars, mnew, preemptvars, stack, histvars, color, next,
                   m_all_objects>>

\* heap_alloc, line 359-366: unlock the last lock taken; return allocated
HeapAllocExit(t) ==
    /\ Running /\ mpc[t] = "heap_exit"
    /\ m_heap_locks' = IF last_lock_taken[t] # NoLock
                       THEN spinlock_unlock(m_heap_locks, last_lock_taken[t])
                       ELSE m_heap_locks
    /\ last_lock_taken' = [last_lock_taken EXCEPT ![t] = NoLock]
    /\ mpc' = [mpc EXCEPT ![t] = "new_alloc"]
    /\ UNCHANGED <<nullMapped, semvars, pgvars, jitvars, panic, stripe, subpool_idx, iter_pool, fld, log_pointer, m_color_black,
                   m_color_white, gcl, collvars, condvars, mo, mnew, preemptvars, stack, histvars,
                   color, next, m_all_objects>>

InitSpecHeap ==
    InitMachine /\ InitPreemptOff /\ InitGCOver(HeapSlots) /\ InitHeap /\ InitSemIdle /\ InitPagesIdle /\ InitJitIdle
NextHeap ==
    \E t \in Mut :
        \/ HeapAllocEnter(t) \/ HeapAllocSubpool(t) \/ HeapAllocExit(t)
        \/ GcNewColor(t) \/ GcNewLink(t)
SpecHeap == InitSpecHeap /\ [][NextHeap]_vars

\* C5: concurrent allocations never hand out the same slot twice: two threads
\* never hold the same freshly selected slot, and no slot is returned to two
\* callers.
C5_DistinctSlots ==
    \A t1, t2 \in Mut :
        t1 # t2 =>
            /\ (mpc[t1] \in {"heap_exit", "new_alloc", "new_link"}
                /\ mpc[t2] \in {"heap_exit", "new_alloc", "new_link"}
                /\ mo[t1] # NULL) => mo[t1] # mo[t2]
            /\ stack[t1] \cap stack[t2] = {}

(***************************************************************************)
(* semaphore.c: the Go-style semaphore.  Every thread owns one             *)
(* waiting_thread_t descriptor, wts[t]; wts[NULL] is the memory at address *)
(* 0 that the queue code reads and writes when semaphore->waiters is NULL. *)
(***************************************************************************)
SemThr == 1..NSemThr
WtN == 0..NSemThr
semRest == <<nullMapped, hpvars, gcvars, pgvars, jitvars>>
semq == <<sem_value, sem_nwait, sem_lock, sem_waiters, wts>>
semobs == <<sem_init, sops, acq_done, rel_inc, rel_done, firstParks, deqLog, lateParks>>

InitSem ==
    /\ sem_init \in 0..MaxSemInit
    /\ sem_value = sem_init
    /\ sem_nwait = 0 /\ sem_lock = NoThread /\ sem_waiters = NULL
    /\ \E tk \in {0, 1} :
         wts = [d \in WtN |-> [ticket |-> IF d = NULL THEN tk ELSE 0,
                               wait_link |-> NULL, wait_tail |-> NULL,
                               thread |-> NoThread]]
    /\ spc = [t \in SemThr |-> "idle"]
    /\ sflag = [t \in SemThr |-> [flag |-> FALSE, again |-> FALSE]]
    /\ swt = [t \in SemThr |-> NULL]
    /\ parked = [t \in SemThr |-> FALSE]
    /\ sops = 0 /\ acq_done = 0 /\ rel_inc = 0 /\ rel_done = 0
    /\ firstParks = <<>> /\ deqLog = <<>> /\ lateParks = FALSE

\* semaphore_queue(semaphore, wt, lifo): the new waiters pointer and descriptors
semaphore_queue(w, W, x, lifo) ==
    LET t == w IN
    IF lifo
    THEN LET W1 == [W EXCEPT ![x].ticket = W[t].ticket]
             W2 == [W1 EXCEPT ![x].wait_link = t]
             W3 == [W2 EXCEPT ![x].wait_tail = W2[t].wait_tail]
             W4 == IF W3[x].wait_tail = NULL
                   THEN [W3 EXCEPT ![x].wait_tail = t] ELSE W3
             W5 == [W4 EXCEPT ![t].wait_tail = NULL]
         IN  [waiters |-> x, wts |-> W5]
    ELSE LET W1 == IF W[t].wait_tail = NULL
                   THEN [W EXCEPT ![t].wait_link = x]
                   ELSE [W EXCEPT ![W[t].wait_tail].wait_link = x]
             W2 == [W1 EXCEPT ![t].wait_tail = x]
             W3 == [W2 EXCEPT ![t].wait_link = NULL]
         IN  [waiters |-> w, wts |-> W3]

\* semaphore_dequeue(semaphore): the descriptor returned, the new waiters
\* pointer and descriptors
semaphore_dequeue(w, W) ==
    LET wt == w IN
    IF W[wt].wait_link # NULL
    THEN LET t  == W[wt].wait_link
             W1 == [W EXCEPT ![t].ticket = W[wt].ticket]
             W2 == IF W1[t].wait_link # NULL
                   THEN [W1 EXCEPT ![t].wait_tail = W1[wt].wait_tail]
                   ELSE [W1 EXCEPT ![t].wait_tail = NULL]
             W3 == [W2 EXCEPT ![wt].wait_link = NULL]
             W4 == [W3 EXCEPT ![wt].wait_tail = NULL]
             W5 == [W4 EXCEPT ![wt].ticket = 0]
         IN  [wt |-> wt, waiters |-> t, wts |-> W5]
    ELSE [wt |-> wt, waiters |-> NULL, wts |-> [W EXCEPT ![wt].ticket = 0]]

\* a compare-and-swap that reports success without storing v - 1
semaphore_can_acquire_nostore(v) ==
    IF v = 0 THEN [ok |-> FALSE, value |-> v] ELSE [ok |-> TRUE, value |-> v]
\* semaphore_can_acquire: the result and the value it leaves
semaphore_can_acquire(v) ==
    IF v = 0 THEN [ok |-> FALSE, value |-> v] ELSE [ok |-> TRUE, value |-> v - 1]

SemDone(t) == spc' = [spc EXCEPT ![t] = "idle"]

\* semaphore_acquire, lines 98-110: the easy case, else take a descriptor
SemAcquireEnter(t, lifo) ==
    /\ Running /\ spc[t] = "idle" /\ sops < MaxSemOps
    /\ sops' = sops + 1
    /\ LET r == semaphore_can_acquire(sem_value) IN
       /\ sem_value' = r.value
       /\ IF r.ok
          THEN /\ acq_done' = acq_done + 1
               /\ UNCHANGED <<spc, sflag, wts>>
          ELSE /\ spc' = [spc EXCEPT ![t] = "a_lock"]
               /\ sflag' = [sflag EXCEPT ![t] = [flag |-> lifo, again |-> FALSE]]
               /\ wts' = [wts EXCEPT ![t].thread = t]
               /\ UNCHANGED acq_done
    /\ UNCHANGED <<sem_nwait, sem_lock, sem_waiters, swt, parked, sem_init, rel_inc,
                   rel_done, firstParks, deqLog, lateParks, panic, semRest>>

\* lines 113-116: spinlock_lock, nwait++
SemAcquireLock(t) ==
    /\ Running /\ spc[t] = "a_lock" /\ sem_lock = NoThread
    /\ sem_lock' = t
    /\ sem_nwait' = sem_nwait + 1
    /\ spc' = [spc EXCEPT ![t] = "a_check"]
    /\ UNCHANGED <<sem_value, sem_waiters, wts, sflag, swt, parked, semobs, panic,
                   semRest>>

\* lines 119-123: the second semaphore_can_acquire, under the lock
SemAcquireCheck(t) ==
    /\ Running /\ spc[t] = "a_check"
    /\ LET r == semaphore_can_acquire(sem_value) IN
       /\ sem_value' = r.value
       /\ IF r.ok
          THEN /\ sem_nwait' = sem_nwait - 1
               /\ sem_lock' = NoThread
               /\ acq_done' = acq_done + 1
               /\ SemDone(t)
          ELSE /\ spc' = [spc EXCEPT ![t] = "a_queue"]
               /\ UNCHANGED <<sem_nwait, sem_lock, acq_done>>
    /\ UNCHANGED <<sem_waiters, wts, sflag, swt, parked, sem_init, sops, rel_inc,
                   rel_done, firstParks, deqLog, lateParks, panic, semRest>>

\* lines 127-131: semaphore_queue, then scheduler_park, which releases the lock
SemAcquirePark(t) ==
    /\ Running /\ spc[t] = "a_queue"
    /\ IF sem_waiters = NULL /\ ~nullMapped
       THEN /\ panic' = TRUE
            /\ UNCHANGED <<semvars, semRest>>
       ELSE LET q == semaphore_queue(sem_waiters, wts, t, sflag[t].flag) IN
            /\ sem_waiters' = q.waiters
            /\ wts' = q.wts
            /\ sem_lock' = NoThread
            /\ parked' = [parked EXCEPT ![t] = TRUE]
            /\ spc' = [spc EXCEPT ![t] = "a_parked"]
            /\ firstParks' = IF sflag[t].again THEN firstParks
                             ELSE Append(firstParks, [t |-> t, lifo |-> sflag[t].flag])
            /\ lateParks' = (lateParks \/ (~sflag[t].again /\ rel_inc > 0))
            /\ UNCHANGED <<sem_value, sem_nwait, sflag, swt, sem_init, sops, acq_done,
                           rel_inc, rel_done, deqLog, panic, semRest>>

\* lines 133-135: after the wake-up
SemAcquireWoken(t) ==
    /\ Running /\ spc[t] = "a_parked" /\ ~parked[t]
    /\ IF wts[t].ticket # 0
       THEN /\ acq_done' = acq_done + 1
            /\ SemDone(t)
            /\ UNCHANGED <<sem_value, sflag>>
       ELSE LET r == semaphore_can_acquire(sem_value) IN
            /\ sem_value' = r.value
            /\ IF r.ok
               THEN /\ acq_done' = acq_done + 1
                    /\ SemDone(t)
                    /\ UNCHANGED sflag
               ELSE /\ spc' = [spc EXCEPT ![t] = "a_lock"]
                    /\ sflag' = [sflag EXCEPT ![t].again = TRUE]
                    /\ UNCHANGED acq_done
    /\ UNCHANGED <<sem_nwait, sem_lock, sem_waiters, wts, swt, parked, sem_init, sops,
                   rel_inc, rel_done, firstParks, deqLog, lateParks, panic, semRest>>

\* semaphore_release, line 142: value++
SemReleaseInc(t, handoff) ==
    /\ Running /\ spc[t] = "idle" /\ sops < MaxSemOps
    /\ sops' = sops + 1
    /\ sem_value' = sem_value + 1
    /\ rel_inc' = rel_inc + 1
    /\ sflag' = [sflag EXCEPT ![t] = [flag |-> handoff, again |-> FALSE]]
    /\ spc' = [spc EXCEPT ![t] = "r_load"]
    /\ UNCHANGED <<sem_nwait, sem_lock, sem_waiters, wts, swt, parked, sem_init,
                   acq_done, rel_done, firstParks, deqLog, lateParks, panic, semRest>>

\* lines 147-149: the easy case
SemReleaseLoad(t) ==
    /\ Running /\ spc[t] = "r_load"
    /\ IF sem_nwait = 0
       THEN SemDone(t) /\ rel_done' = rel_done + 1
       ELSE spc' = [spc EXCEPT ![t] = "r_lock"] /\ UNCHANGED rel_done
    /\ UNCHANGED <<semq, sflag, swt, parked, sem_init, sops, acq_done, rel_inc,
                   firstParks, deqLog, lateParks, panic, semRest>>

\* lines 152-162: under the lock, recheck nwait, dequeue, nwait--
SemReleaseDequeue(t) ==
    /\ Running /\ spc[t] = "r_lock" /\ sem_lock = NoThread
    /\ IF sem_nwait = 0
       THEN /\ SemDone(t) /\ rel_done' = rel_done + 1
            /\ UNCHANGED <<semq, swt, deqLog, panic>>
       ELSE IF sem_waiters = NULL /\ ~nullMapped
       THEN /\ panic' = TRUE
            /\ UNCHANGED <<semq, spc, swt, deqLog, rel_done>>
       ELSE LET d == semaphore_dequeue(sem_waiters, wts) IN
            /\ sem_waiters' = d.waiters
            /\ wts' = d.wts
            /\ swt' = [swt EXCEPT ![t] = d.wt]
            /\ sem_nwait' = sem_nwait - 1
            /\ deqLog' = Append(deqLog, d.wt)
            /\ spc' = [spc EXCEPT ![t] = "r_handoff"]
            /\ UNCHANGED <<sem_value, sem_lock, rel_done, panic>>
    /\ UNCHANGED <<sflag, parked, sem_init, sops, acq_done, rel_inc, firstParks,
                   lateParks, semRest>>

\* lines 164-166: if (handoff & semaphore_can_acquire(semaphore)) wt->ticket = 1;
\* both operands of & are evaluated
SemReleaseHandoff(t) ==
    /\ Running /\ spc[t] = "r_handoff"
    /\ LET r == semaphore_can_acquire(sem_value) IN
       /\ sem_value' = r.value
       /\ wts' = IF sflag[t].flag /\ r.ok
                 THEN [wts EXCEPT ![swt[t]].ticket = 1] ELSE wts
    /\ spc' = [spc EXCEPT ![t] = "r_ready"]
    /\ UNCHANGED <<sem_nwait, sem_lock, sem_waiters, sflag, swt, parked, semobs, panic,
                   semRest>>

\* lines 168-183: scheduler_ready_thread(wt->thread), then the yield.  Readying
\* what is not a parked thread either faults or has no effect.
SemReleaseReady(t) ==
    /\ Running /\ spc[t] = "r_ready"
    /\ LET th == wts[swt[t]].thread IN
       IF th \in SemThr /\ parked[th]
       THEN parked' = [parked EXCEPT ![th] = FALSE] /\ UNCHANGED panic
       ELSE UNCHANGED parked /\ panic' \in BOOLEAN
    /\ SemDone(t)
    /\ swt' = [swt EXCEPT ![t] = NULL]
    /\ rel_done' = rel_done + 1
    /\ UNCHANGED <<semq, sflag, sem_init, sops, acq_done, rel_inc, firstParks, deqLog,
                   lateParks, semRest>>

InitSpecSem == InitMachine /\ InitGC /\ InitHeapIdle /\ InitSem /\ InitPagesIdle /\ InitJitIdle
NextSem ==
    \/ \E t \in SemThr, lifo \in BOOLEAN : SemAcquireEnter(t, lifo)
    \/ \E t \in SemThr : SemAcquireLock(t)
    \/ \E t \in SemThr : SemAcquireCheck(t)
    \/ \E t \in SemThr : SemAcquirePark(t)
    \/ \E t \in SemThr : SemAcquireWoken(t)
    \/ \E t \in SemThr, handoff \in BOOLEAN : SemReleaseInc(t, handoff)
    \/ \E t \in SemThr : SemReleaseLoad(t)
    \/ \E t \in SemThr : SemReleaseDequeue(t)
    \/ \E t \in SemThr : SemReleaseHandoff(t)
    \/ \E t \in SemThr : SemReleaseReady(t)
SpecSem == InitSpecSem /\ [][NextSem]_vars

\* no semaphore_acquire or semaphore_release call is in progress
SemQuiet == \A t \in SemThr : spc[t] = "idle"
\* every call in progress is an acquire that is parked
SemSettled == \A t \in SemThr : spc[t] = "idle" \/ (spc[t] = "a_parked" /\ parked[t])

\* C6: the semaphore never over-grants: the completed semaphore_acquire calls
\* never outnumber the initial value plus the releases that have incremented
\* value.
C6_NeverOverGrants == acq_done <= sem_init + rel_inc
\* an acquire that parked has completed, and every permit ever issued is taken
C6_Witness ==
    /\ Len(firstParks) >= 1 /\ Len(deqLog) >= 1
    /\ acq_done >= 2 /\ acq_done = sem_init + rel_inc

\* C7: no permit is lost by a release: with no acquire or release in progress,
\* value + completed acquires = initial value + completed releases, whatever
\* the handoff flags were.
C7_NoPermitLost == SemQuiet => sem_value + acq_done = sem_init + rel_done

\* C8: no missed wake-up: with no operation running, value > 0 never coexists
\* with a thread parked in semaphore_acquire.
C8_NoMissedWakeup ==
    SemSettled => ~(sem_value > 0 /\ \E t \in SemThr : parked[t])

\* n >= 1 threads parked with the given lifo flag while value was 0, every
\* release began after the last of them parked, and n releases have returned
ParkedThenReleased(lifo) ==
    /\ sem_init = 0 /\ ~lateParks
    /\ Len(firstParks) >= 1
    /\ \A i \in 1..Len(firstParks) : firstParks[i].lifo = lifo
    /\ rel_inc = Len(firstParks) /\ rel_done = Len(firstParks)

\* C9: FIFO wake order: after t1..tn parked with lifo = false and n releases
\* followed, the releases dequeued exactly t1..tn, in that order.
C9_FifoWakeOrder ==
    ParkedThenReleased(FALSE) =>
        deqLog = [i \in 1..Len(firstParks) |-> firstParks[i].t]

\* C10: LIFO wake order: after t1..tn parked with lifo = true and n releases
\* followed, the releases dequeued exactly tn..t1, in that order.
C10_LifoWakeOrder ==
    ParkedThenReleased(TRUE) =>
        deqLog = [i \in 1..Len(firstParks) |->
                     firstParks[Len(firstParks) + 1 - i].t]

(***************************************************************************)
(* The semaphore under fair scheduling, every release with handoff = true. *)
(***************************************************************************)
\* a thread inside semaphore_acquire or semaphore_release takes its next step
SemStep(t) ==
    \/ SemAcquireLock(t) \/ SemAcquireCheck(t) \/ SemAcquirePark(t)
    \/ SemAcquireWoken(t) \/ SemReleaseLoad(t) \/ SemReleaseDequeue(t)
    \/ SemReleaseHandoff(t) \/ SemReleaseReady(t)
NextSemHandoff ==
    \/ \E t \in SemThr, lifo \in BOOLEAN : SemAcquireEnter(t, lifo)
    \/ \E t \in SemThr : SemReleaseInc(t, TRUE)
    \/ \E t \in SemThr : SemStep(t)
SpecSemHandoff ==
    /\ InitSpecSem /\ [][NextSemHandoff]_vars
    /\ \A t \in SemThr : WF_vars(SemStep(t))

\* k >= 1 waiters parked while value was 0, nobody else called acquire, and k
\* releases (all with handoff = true in SpecSemHandoff) were called afterwards
WaitersThenHandoffs ==
    /\ sem_init = 0 /\ ~lateParks
    /\ Len(firstParks) >= 1
    /\ rel_inc = Len(firstParks)
    /\ sops = 2 * Len(firstParks) /\ sops = MaxSemOps

ConductorStep(t) ==
    \/ GcWaitWake(t) \/ GcWaitPark(t) \/ GcWaitRelock(t) \/ GcWaitUnlock(t)
    \/ GcWakeSet(t)
NextConductor ==
    \/ \E t \in Mut : GcWaitLock(t)
    \/ \E t \in Mut : GcWakeCheck(t)
    \/ \E t \in Mut : ConductorStep(t)
    \/ NextCollector
SpecConductor ==
    /\ InitSpecGC /\ [][NextConductor]_vars
    /\ WF_vars(NextCollector)
    /\ \A t \in Mut : WF_vars(ConductorStep(t))

\* thread t is inside gc_wait
InGcWait(t) ==
    mpc[t] \in {"wait_wake", "wait_park", "wait_cond", "wait_relock", "wait_unlock"}

\* C12: under fair scheduling every call of gc_wait eventually returns.
C12_GcWaitReturns == \A t \in Mut : InGcWait(t) ~> (mpc[t] = "idle")

(***************************************************************************)
(* heap.c as functions of the page tables: heap_alloc's size classes and   *)
(* page mapping, heap_find.  An address is a pool (one PML4 entry, 512 GiB)*)
(* and a byte offset in it; the pool base is a multiple of every slot size.*)
(***************************************************************************)
SIZE_4KB == 4096
SIZE_2MB == 2097152
SIZE_1GB == 1073741824
SIZE_512MB == 536870912

RECURSIVE BitLen(_)
\* 64 - __builtin_clzll(x) for 0 < x < 2^63
BitLen(x) == IF x = 0 THEN 0 ELSE 1 + BitLen(x \div 2)
\* 64 - __builtin_clzll(0): the builtin is undefined at 0 (lzcnt gives 64, bsr
\* leaves its destination as it was)
WidthOfZero == {0, 1, 64}
\* 64 - __builtin_clzll(x), x = -1 standing for the size_t value 2^64 - 1
Widths(x) == IF x = 0 THEN WidthOfZero ELSE IF x = 0 - 1 THEN {64} ELSE {BitLen(x)}
\* 1ull << n; a shift by 64 is undefined (the count is masked, or the result is 0)
Shl1(n) == IF n >= 64 THEN {0, 1} ELSE {2 ^ n}
\* heap_alloc, line 145: aligned_size = 1ull << (64 - __builtin_clzll(size - 1))
AlignedSizes(size) == UNION {Shl1(w) : w \in Widths(size - 1)}
\* heap_alloc, line 148: pool_idx = (64 - __builtin_clzll(aligned_size - 1)) - 4
PoolIdxs(aligned_size) == {w - 4 : w \in Widths(aligned_size - 1)}

\* calc_object_size, line 114-117: 2 << (4 + poolidx)
calc_object_size(poolidx) == 2 * (2 ^ (4 + poolidx))
ALIGN_DOWN(x, a) == x - (x % a)
PML3_INDEX(ptr) == <<ptr.pool, ptr.off \div SIZE_1GB>>
PML2_INDEX(ptr) == <<ptr.pool, ptr.off \div SIZE_2MB>>
PML1_INDEX(ptr) == <<ptr.pool, ptr.off \div SIZE_4KB>>
\* OBJECT_HEAP_START <= ptr < OBJECT_HEAP_END: the POOL_COUNT pools of init_heap
InObjectHeap(ptr) == ptr.pool \in 0..(POOL_COUNT - 1)

\* heap_find, line 119-134
heap_find(ptr) ==
    IF InObjectHeap(ptr)
    THEN LET size == calc_object_size(ptr.pool) IN
         IF PML3_INDEX(ptr) \notin pg_pml3 THEN NoObject
         ELSE IF PML2_INDEX(ptr) \notin pg_pml2 THEN NoObject
         ELSE IF size < SIZE_2MB /\ PML1_INDEX(ptr) \notin pg_pml1 THEN NoObject
         ELSE [pool |-> ptr.pool, off |-> ALIGN_DOWN(ptr.off, size)]
    ELSE NoObject

\* the request sizes and the pointers the calls are made with
PgSizes == {0, 1, 8, 16, 17, SIZE_4KB, SIZE_2MB \div 2, SIZE_2MB, SIZE_512MB,
            SIZE_512MB + 1}
PgPools == {0 - 1, 0, 1, 8, 16, 17, 25, POOL_COUNT}
PgOffsets == {0, 8, 16, 24, 32, SIZE_4KB, SIZE_4KB + 8, SIZE_2MB \div 2,
              (SIZE_2MB \div 2) + SIZE_4KB, SIZE_2MB, SIZE_2MB + SIZE_4KB}
PgPointers == {[pool |-> p, off |-> x] : p \in PgPools, x \in PgOffsets}

\* the slots of pool p that heap_alloc's walk meets first, in address order
PoolSlots(p, aligned_size) ==
    {[pool |-> p, off |-> k * aligned_size] : k \in 0..(PgSlots - 1)}
\* heap_alloc, line 161-357: the first slot of the walk whose colour is blue
FirstBlueSlot(p, aligned_size) ==
    LET free == PoolSlots(p, aligned_size) \ pg_live IN
    IF free = {} THEN NoObject
    ELSE CHOOSE o \in free : \A q \in free : o.off <= q.off

\* the PML2 / PML1 entries heap_alloc maps for the object at o, when the first
\* of them is not present (lines 199-236, 260-294, 311-328)
NewPml2(o, aligned_size) ==
    IF aligned_size >= SIZE_2MB
    THEN IF PML2_INDEX(o) \in pg_pml2 THEN {}
         ELSE {<<o.pool, (o.off \div SIZE_2MB) + i>> :
                   i \in 0..((aligned_size \div SIZE_2MB) - 1)}
    ELSE {PML2_INDEX(o)} \ pg_pml2
NewPml1(o, aligned_size) ==
    IF aligned_size >= SIZE_2MB THEN {}
    ELSE IF PML1_INDEX(o) \in pg_pml1 THEN {}
    ELSE IF aligned_size >= SIZE_4KB
    THEN {<<o.pool, (o.off \div SIZE_4KB) + i>> :
              i \in 0..((aligned_size \div SIZE_4KB) - 1)}
    ELSE {PML1_INDEX(o)}

\* the processor sets the dirty bit of the page a store goes to
StoreDirties(ptr) ==
    IF PML2_INDEX(ptr) \in pg_pml2' /\ PML1_INDEX(ptr) \notin pg_pml1'
    THEN pg_dirty2' = pg_dirty2 \cup {PML2_INDEX(ptr)} /\ UNCHANGED pg_dirty1
    ELSE pg_dirty1' = pg_dirty1 \cup {PML1_INDEX(ptr)} /\ UNCHANGED pg_dirty2

\* heap_alloc, line 138: if (size > SIZE_512MB)
TooLargeNever(size) == FALSE
TooLarge(size) == size > SIZE_512MB

pgRest == <<nullMapped, hpvars, gcvars, semvars, jitvars>>

\* heap_alloc(size), on one core, followed by gc_new's store of the colour
PgAllocCall(size) ==
    /\ Running
    /\ pg_ops' = pg_ops + 1 /\ pg_op' = "alloc"
    /\ NoOom /\ UNCHANGED dirty_iter
    /\ ha_size' = size
    /\ IF TooLarge(size)
       THEN /\ ha_res' = NoObject
            /\ UNCHANGED <<pg_pml3, pg_pml2, pg_pml1, pg_dirty2, pg_dirty1, pg_live,
                           pg_locks, pg_palloc, ha_pool, panic>>
       ELSE \E aligned_size \in AlignedSizes(size) :
            \E pidx \in PoolIdxs(aligned_size) :
            /\ ha_pool' = pidx
            /\ pg_locks' = pg_locks + 1
            /\ IF pidx \notin 0..(POOL_COUNT - 1)
               THEN \* the walk leaves the object heap and m_heap_locks: it
                    \* faults, or finds nothing
                    /\ panic' \in BOOLEAN
                    /\ ha_res' = NoObject
                    /\ UNCHANGED <<pg_pml3, pg_pml2, pg_pml1, pg_dirty2, pg_dirty1,
                                   pg_live, pg_palloc>>
               ELSE LET o == FirstBlueSlot(pidx, aligned_size)
                        n2 == NewPml2(o, aligned_size)
                        n1 == NewPml1(o, aligned_size)
                    IN  /\ o # NoObject
                        /\ pg_pml3' = pg_pml3 \cup {PML3_INDEX(o)}
                        /\ pg_pml2' = pg_pml2 \cup n2
                        /\ pg_pml1' = pg_pml1 \cup n1
                        /\ pg_palloc' = pg_palloc
                              + (IF aligned_size >= SIZE_2MB THEN Cardinality(n2)
                                 ELSE Cardinality(n1))
                        /\ pg_live' = pg_live \cup {o}
                        /\ StoreDirties(o)
                        /\ ha_res' = o
                        /\ UNCHANGED panic
    /\ UNCHANGED <<hf_ptr, hf_res, cb_log, pgRest>>
PgAlloc(size) == pg_ops < MaxPgOps /\ PgAllocCall(size)

\* sweep, line 269: swept->color = COLOR_BLUE
PgSweepCall(o) ==
    /\ Running /\ o \in pg_live
    /\ pg_ops' = pg_ops + 1 /\ pg_op' = "sweep"
    /\ NoOom /\ UNCHANGED dirty_iter
    /\ pg_live' = pg_live \ {o}
    /\ UNCHANGED <<pg_pml3, pg_pml2, pg_pml1>>
    /\ StoreDirties(o)
    /\ UNCHANGED <<pg_locks, pg_palloc, ha_size, ha_pool, ha_res, hf_ptr, hf_res,
                   cb_log, panic, pgRest>>
PgSweep(o) == pg_ops < MaxPgOps /\ PgSweepCall(o)

\* heap_find(ptr)
PgFind(ptr) ==
    /\ Running /\ pg_ops < MaxPgOps
    /\ pg_ops' = pg_ops + 1 /\ pg_op' = "find"
    /\ NoOom /\ UNCHANGED dirty_iter
    /\ hf_ptr' = ptr
    /\ hf_res' = heap_find(ptr)
    /\ UNCHANGED <<pg_pml3, pg_pml2, pg_pml1, pg_dirty2, pg_dirty1, pg_live, pg_locks,
                   pg_palloc, ha_size, ha_pool, ha_res, cb_log, panic, pgRest>>

InitPages ==
    /\ pg_pml3 = {} /\ pg_pml2 = {} /\ pg_pml1 = {} /\ pg_dirty2 = {} /\ pg_dirty1 = {}
    /\ pg_live = {} /\ pg_locks = 0 /\ pg_palloc = 0 /\ pg_op = "none" /\ pg_ops = 0
    /\ ha_size = 0 /\ ha_pool = 0 /\ ha_res = NoObject /\ hf_ptr = NoObject
    /\ ha_oom = NoObject /\ ha_got = {} /\ ha_freed = <<>>
    /\ dirty_iter = NoDirtyIter
    /\ hf_res = NoObject /\ cb_log = <<>>
InitSpecPages == InitMachine /\ InitGC /\ InitHeapIdle /\ InitSemIdle /\ InitPages /\ InitJitIdle
NextPages ==
    \/ \E size \in PgSizes : PgAlloc(size)
    \/ \E o \in pg_live : PgSweep(o)
    \/ \E ptr \in PgPointers : PgFind(ptr)
SpecPages == InitSpecPages /\ [][NextPages]_vars

\* the slot size of a pool: 16 bytes in pool 0, doubling with every pool
SlotSize(p) == 2 ^ (p + 4)
RECURSIVE CeilLog2(_)
CeilLog2(x) == IF x <= 1 THEN 0 ELSE 1 + CeilLog2((x + 1) \div 2)
Max(a, b) == IF a >= b THEN a ELSE b
\* the last call was heap_find and it returned an object
Found == pg_op = "find" /\ hf_res # NoObject
\* every page-table entry that covers ptr is present
Backed(ptr) ==
    /\ PML3_INDEX(ptr) \in pg_pml3
    /\ PML2_INDEX(ptr) \in pg_pml2
    /\ SlotSize(ptr.pool) < SIZE_2MB => PML1_INDEX(ptr) \in pg_pml1

\* C13: heap_find returns the start of the slot that contains the pointer:
\* o <= p < o + 2^(pool(p) + 4), so heap_find(o + d) = o inside an allocated slot.
C13_FindReturnsContainingSlot ==
    Found => /\ hf_res.pool = hf_ptr.pool
             /\ hf_res.off <= hf_ptr.off
             /\ hf_ptr.off < hf_res.off + SlotSize(hf_ptr.pool)

\* C14: heap_find never returns a free slot: the object it returns is not blue.
C14_FindNeverReturnsBlue == Found => hf_res \in pg_live

\* C15: heap_find returns null for every pointer outside the object heap and
\* for every pointer whose covering page-table entries are not all present.
C15_FindNullWhenUnbacked ==
    (pg_op = "find" /\ (~InObjectHeap(hf_ptr) \/ ~Backed(hf_ptr)))
        => hf_res = NoObject

\* C16: size class selection: a request of s <= 512 MiB searches pool
\* max(0, ceil(log2(s)) - 4), which lies in 0..25.
C16_SizeClass ==
    (pg_op = "alloc" /\ ha_size <= SIZE_512MB)
        => /\ ha_pool = Max(0, CeilLog2(ha_size) - 4)
           /\ ha_pool \in 0..(POOL_COUNT - 1)

\* C17: heap_alloc(size) with size > 512 MiB returns null, takes no heap lock,
\* calls no palloc and changes no page-table entry.
C17_TooLargeHasNoEffect ==
    [][(pg_op' = "alloc" /\ pg_ops' # pg_ops /\ ha_size' > SIZE_512MB)
          => /\ ha_res' = NoObject
             /\ UNCHANGED <<pg_pml3, pg_pml2, pg_pml1, pg_dirty2, pg_dirty1,
                            pg_locks, pg_palloc, pg_live>>]_vars
\* an oversized request was refused while the heap already held mapped objects
C17_Witness ==
    /\ pg_op = "alloc" /\ ha_size > SIZE_512MB /\ ha_res = NoObject
    /\ pg_live # {} /\ pg_pml2 # {} /\ pg_locks > 0

\* C18: when heap_alloc returns null gc_new waits for a collection and retries
\* or raises out-of-memory; it never writes through the null object pointer
\* (neither a store to address 0 nor a fault on it).
C18_GcNewNeverWritesNull ==
    \A t \in Mut :
        /\ mpc[t] = "new_link" => mo[t] # NULL
        /\ ~(panic /\ mpc[t] = "new_alloc" /\ mo[t] = NULL)
\* ------------------------------------------------------------------ the jitter
\* The types the opcodes below deal with, and a struct as the value type
\* that is not primitive.
g_int == "int"
g_long == "long"
g_object == "object"
JitTypes == {g_int, g_long, g_object, "struct"}
is_primitive(type) == type \in {g_int, g_long}
is_value_type(type) == type \in {g_int, g_long, "struct"}
get_param_mir_type(type) == IF type = g_int THEN "MIR_T_I32" ELSE "MIR_T_I64"
is_type_assignable_to(from, to) == from = to
\* the fields a stfld token may name
JitFields == [field_type : JitTypes, static : BOOLEAN]
field_is_static(field_info) == field_info.static

\* jit_push: a primitive lives in a register, a reference in the object
\* area of the stack frame
jit_push(type) == Append(jit_stack, type)
PushOperand(type) == IF is_primitive(type) THEN "reg" ELSE "frame"
jit_pop(stk) == SubSeq(stk, 1, Len(stk) - 1)
arrlast(stk) == stk[Len(stk)]
MIR_MOV(dst, typ, src) == [insn |-> "MIR_MOV", dst |-> dst, typ |-> typ, src |-> src]
JitFail ==
    /\ jit_err' = TRUE
    /\ jit_ops' = jit_ops + 1

JitCanStep == Running /\ ~jit_err /\ jit_ops < MaxJitOps
jitRest == <<nullMapped, hpvars, gcvars, semvars, pgvars, panic>>

\* ldc.i4 / ldc.i8
JitLdc(type) ==
    /\ JitCanStep
    /\ jit_stack' = jit_push(type)
    /\ jit_code' = Append(jit_code, MIR_MOV(PushOperand(type), "MIR_T_I64", "int"))
    /\ jit_ops' = jit_ops + 1
    /\ UNCHANGED <<jit_err, jitRest>>

\* ldnull
JitLdnull ==
    /\ JitCanStep
    /\ jit_stack' = jit_push(g_object)
    /\ jit_code' = Append(jit_code, MIR_MOV(PushOperand(g_object), "MIR_T_I64", "int"))
    /\ jit_ops' = jit_ops + 1
    /\ UNCHANGED <<jit_err, jitRest>>

\* stfld: each CHECK that fails ends the compilation with what was emitted
JitStfld(field_info) ==
    /\ JitCanStep
    /\ IF Len(jit_stack) < 2
       THEN JitFail /\ UNCHANGED <<jit_stack, jit_code>>
       ELSE IF ~is_type_assignable_to(arrlast(jit_stack), field_info.field_type)
       THEN JitFail /\ UNCHANGED <<jit_stack, jit_code>>
       ELSE LET value == PushOperand(arrlast(jit_stack))
                stk1 == jit_pop(jit_stack)
                obj_type == arrlast(stk1)
                base == MIR_MOV("temp", "MIR_T_I64", PushOperand(obj_type))
            IN  IF is_value_type(obj_type)
                THEN JitFail /\ jit_stack' = stk1 /\ UNCHANGED jit_code
                ELSE IF field_is_static(field_info)
                THEN JitFail /\ jit_stack' = jit_pop(stk1) /\ UNCHANGED jit_code
                ELSE IF ~is_primitive(field_info.field_type)
                        /\ is_value_type(field_info.field_type)
                THEN /\ JitFail /\ jit_stack' = jit_pop(stk1)
                     /\ jit_code' = Append(jit_code, base)
                ELSE LET typ == IF is_primitive(field_info.field_type)
                                THEN get_param_mir_type(field_info.field_type)
                                ELSE "MIR_T_P"
                     IN  /\ jit_stack' = jit_pop(stk1)
                         /\ jit_code' = jit_code \o
                                <<base, MIR_MOV("field", typ, value)>>
                         /\ jit_ops' = jit_ops + 1
                         /\ UNCHANGED jit_err
    /\ UNCHANGED jitRest

\* a call instruction: its result operand and the function called
MIR_CALL(dst, callee) ==
    [insn |-> "MIR_CALL", dst |-> dst, typ |-> "MIR_T_I64", src |-> callee]

\* newobj of a class whose constructor takes args arguments besides this:
\* jit_newobj emits the call of gc_new into a temporary register, the call
\* of the constructor and the call of set_top_frame; the opcode's case then
\* pushes the object and moves the register into its stack slot
JitNewobj(args) ==
    /\ JitCanStep
    /\ Len(jit_stack) >= args
    /\ jit_stack' = Append(SubSeq(jit_stack, 1, Len(jit_stack) - args), g_object)
    /\ jit_code' = jit_code \o
           <<MIR_CALL("temp", "gc_new"),
             MIR_CALL("none", "ctor"),
             MIR_CALL("none", "set_top_frame"),
             MIR_MOV(PushOperand(g_object), "MIR_T_I64", "temp")>>
    /\ jit_ops' = jit_ops + 1
    /\ UNCHANGED <<jit_err, jitRest>>

InitSpecJit ==
    InitMachine /\ InitGC /\ InitHeapIdle /\ InitSemIdle /\ InitPagesIdle /\ InitJitIdle
NextJit ==
    \/ \E type \in {g_int, g_long} : JitLdc(type)
    \/ JitLdnull
    \/ \E field_info \in JitFields : JitStfld(field_info)
    \/ \E args \in 0..1 : JitNewobj(args)
SpecJit == InitSpecJit /\ [][NextJit]_vars

\* C19: every store the jitter emits into a reference-typed instance field
\* is a call of gc_update, never a plain move into the object's memory;
\* stores into primitive fields are plain moves.
C19_RefStoresCallGcUpdate ==
    \A i \in 1..Len(jit_code) :
        jit_code[i].dst = "field" =>
            IF jit_code[i].typ = "MIR_T_P"
            THEN jit_code[i].insn = "gc_update"
            ELSE jit_code[i].insn = "MIR_MOV"
\* ------------------------------------------------------------------ heap_iterate_dirty_objects
SUBPOOLS_COUNT == 512
\* line 375: size_t pool_object_size = 2 << (4 + pool_idx)
pool_object_size(p) == 2 * (2 ^ (4 + p))
\* line 380: pml3i = pml4i << 9, the same entry at every subpool_idx
Pml3Visited(p, subpool) == <<p, 0>>
\* the PML2 / PML1 entries below a PML3 entry
Pml2Below(e3) == {e \in pg_pml2 : e[1] = e3[1] /\ e[2] \div 512 = e3[2]}
Pml1Below(e2) == {e \in pg_pml1 : e[1] = e2[1] /\ e[2] \div 512 = e2[2]}
\* the entries the walk reaches: those below the PML3 entries it visits
Pml2Walked(p) ==
    UNION {Pml2Below(e3) :
               e3 \in {Pml3Visited(p, s) : s \in 0..(SUBPOOLS_COUNT - 1)} \cap pg_pml3}
Pml1Walked(p) == UNION {Pml1Below(e2) : e2 \in Pml2Walked(p)}
\* how often the walk comes to an entry below the PML3 entry e3
Visits(p, e3) ==
    Cardinality({s \in 0..(SUBPOOLS_COUNT - 1) : Pml3Visited(p, s) = e3})

\* lines 434-441: the callbacks of one dirty 4 KiB page
CallsOfPml1(e) ==
    LET page == e[2] * SIZE_4KB
        object_base == ALIGN_DOWN(page, pool_object_size(e[1]))
    IN  {[pool |-> e[1], off |-> object_base + j * pool_object_size(e[1])] :
            j \in 0..((page + SIZE_4KB - 1 - object_base)
                          \div pool_object_size(e[1]))}
\* lines 411-418: the callback of one dirty 2 MiB entry. Its argument is
\* built from pml2i << 12, an address below the object heap, written here
\* as a pool below 0.
CallOfPml2(e) ==
    [pool |-> 0 - (2 + e[1]),
     off |-> ALIGN_DOWN((e[2] % 512) * SIZE_4KB, pool_object_size(e[1]))]

\* the dirty entries the walk acts on
DirtyWalked1 ==
    UNION {{e \in Pml1Walked(p) : e \in pg_dirty1} :
               p \in {p \in 0..(POOL_COUNT - 1) : pool_object_size(p) < SIZE_2MB}}
DirtyWalked2 ==
    UNION {{e \in Pml2Walked(p) : e \in pg_dirty2} :
               p \in {p \in 0..(POOL_COUNT - 1) : pool_object_size(p) >= SIZE_2MB}}

\* heap_iterate_dirty_objects(callback): cb_log counts the calls of the
\* callback by argument. A PML1 dirty bit is cleared at the first visit
\* (line 445); the 2 MiB branch clears PAGE_TABLE_PML1[pml2i] (line 422), so
\* the PML2 bit stays set and its callback is made at every visit.
PgIterate ==
    /\ Running /\ pg_ops < MaxDirtyOps
    /\ pg_ops' = pg_ops + 1 /\ pg_op' = "iterate"
    /\ NoOom /\ UNCHANGED dirty_iter
    /\ \E d1 \in {DirtyWalked1}, d2 \in {DirtyWalked2} :
       \E calls1 \in {[e \in d1 |-> CallsOfPml1(e)]},
          calls2 \in {[e \in d2 |-> CallOfPml2(e)]},
          visits \in {[e \in d2 |-> Visits(e[1], <<e[1], e[2] \div 512>>)]} :
          /\ cb_log' = [a \in UNION {calls1[e] : e \in d1} \cup {calls2[e] : e \in d2} |->
                Cardinality({e \in d1 : a \in calls1[e]})
                + Cardinality({e \in d2 : a = calls2[e]})
                    * (IF \E e \in d2 : a = calls2[e]
                       THEN visits[CHOOSE e \in d2 : a = calls2[e]] ELSE 0)]
          /\ pg_dirty1' = pg_dirty1 \ d1
    /\ UNCHANGED <<pg_pml3, pg_pml2, pg_pml1, pg_dirty2, pg_live, pg_locks, pg_palloc,
                   ha_size, ha_pool, ha_res, hf_ptr, hf_res, panic, pgRest>>

\* managed code stores into a field of the live object o
PgStore(o) ==
    /\ Running /\ pg_ops < MaxDirtyOps /\ o \in pg_live
    /\ pg_ops' = pg_ops + 1 /\ pg_op' = "store"
    /\ NoOom /\ UNCHANGED dirty_iter
    /\ UNCHANGED <<pg_pml3, pg_pml2, pg_pml1>>
    /\ StoreDirties(o)
    /\ UNCHANGED <<pg_live, pg_locks, pg_palloc, ha_size, ha_pool, ha_res, hf_ptr,
                   hf_res, cb_log, panic, pgRest>>

\* ------------------------------------------------------------------ heap_iterate_objects
\* lines 486-491: objects of 2 MiB and more, one test of the PML2 entry each
IterCallsLarge(p) ==
    {ptr \in {[pool |-> p, off |-> k * pool_object_size(p)] :
                 k \in 0..((SIZE_1GB \div pool_object_size(p)) - 1)} :
        PML2_INDEX(ptr) \in pg_pml2}
\* lines 499-505: objects of 4 KiB and more, one test of the PML1 entry each
IterCallsMedium(p) ==
    {ptr \in UNION {{[pool |-> p, off |-> e[2] * SIZE_2MB + k * pool_object_size(p)] :
                        k \in 0..((SIZE_2MB \div pool_object_size(p)) - 1)} :
                    e \in Pml2Walked(p)} :
        PML1_INDEX(ptr) \in pg_pml1}
\* lines 509-516: smaller objects, every step of a present page. The walk
\* starts at PML2_BASE(pml1i), which is not the page's address: its
\* arguments are written as a pool below 0 with the offset counted from
\* the page
IterCallsSmall(p) ==
    UNION {{[pool |-> 0 - (2 + p), off |-> e[2] * SIZE_4KB + k * pool_object_size(p)] :
               k \in 0..((SIZE_4KB \div pool_object_size(p)) - 1)} :
           e \in Pml1Walked(p)}
IterCalls(p) ==
    IF Pml3Visited(p, 0) \notin pg_pml3 THEN {}
    ELSE IF pool_object_size(p) >= SIZE_2MB THEN IterCallsLarge(p)
    ELSE IF pool_object_size(p) >= SIZE_4KB THEN IterCallsMedium(p)
    ELSE IterCallsSmall(p)
PoolOfArg(a) == IF a.pool >= 0 THEN a.pool ELSE 0 - (a.pool + 2)

\* heap_iterate_objects(callback): the walk comes to the entries below a
\* PML3 entry once for every subpool_idx that leads to it
PgIterateAll ==
    /\ Running /\ pg_ops < MaxDirtyOps
    /\ pg_ops' = pg_ops + 1 /\ pg_op' = "iterate_all"
    /\ NoOom /\ UNCHANGED dirty_iter
    /\ \E called \in {UNION {IterCalls(p) : p \in 0..(POOL_COUNT - 1)}} :
       \E visits \in {[p \in 0..(POOL_COUNT - 1) |-> Visits(p, Pml3Visited(p, 0))]} :
          cb_log' = [a \in called |-> visits[PoolOfArg(a)]]
    /\ UNCHANGED <<pg_pml3, pg_pml2, pg_pml1, pg_dirty1, pg_dirty2, pg_live, pg_locks,
                   pg_palloc, ha_size, ha_pool, ha_res, hf_ptr, hf_res, panic, pgRest>>

DirtySizes == {16, SIZE_4KB, SIZE_2MB \div 2, SIZE_512MB}
DirtyAlloc(size) == pg_ops < MaxDirtyOps /\ PgAllocCall(size)
DirtySweep(o) == pg_ops < MaxDirtyOps /\ PgSweepCall(o)
NextDirty ==
    \/ \E size \in DirtySizes : DirtyAlloc(size)
    \/ \E o \in pg_live : DirtySweep(o)
    \/ \E o \in pg_live : PgStore(o)
    \/ PgIterate
    \/ PgIterateAll
SpecDirty == InitSpecPages /\ [][NextDirty]_vars

\* the pages of the slot at o, and whether one of them is dirty
OnDirtyPage(o) ==
    \/ \E e \in pg_dirty1 :
          /\ e[1] = o.pool
          /\ e[2] * SIZE_4KB < o.off + SlotSize(o.pool)
          /\ o.off < (e[2] + 1) * SIZE_4KB
    \/ \E e \in pg_dirty2 :
          /\ e[1] = o.pool
          /\ e[2] * SIZE_2MB < o.off + SlotSize(o.pool)
          /\ o.off < (e[2] + 1) * SIZE_2MB
CallsOf(log, o) == IF o \in DOMAIN log THEN log[o] ELSE 0

\* C20: one call of heap_iterate_dirty_objects(cb) calls cb exactly once
\* for every allocated object with a dirty page, whatever its pool and
\* subpool, and never for an allocated object whose pages are all clean.
C20_IterateCallsDirtyOnce ==
    [][(pg_op' = "iterate" /\ pg_ops' # pg_ops) =>
          \A o \in pg_live :
              CallsOf(cb_log', o) = (IF OnDirtyPage(o) THEN 1 ELSE 0)]_vars

\* C21: a second heap_iterate_dirty_objects right after a first, with no
\* store in between, makes no callback: the first call left every dirty
\* bit clear, PML2 for the classes of 2 MiB and above and PML1 otherwise.
C21_SecondIterateCallsNothing ==
    [][(pg_op = "iterate" /\ pg_op' = "iterate" /\ pg_ops' # pg_ops) =>
          /\ DOMAIN cb_log' = {}
          /\ pg_dirty1 = {} /\ pg_dirty2 = {}]_vars

\* C22: heap_iterate_objects(cb) calls cb exactly once for every allocated
\* (non-blue) object, in every pool and subpool, and for nothing else:
\* not for a blue slot, not for an address without backing pages.
C22_IterateCallsLiveOnce ==
    [][(pg_op' = "iterate_all" /\ pg_ops' # pg_ops) =>
          /\ \A o \in pg_live : CallsOf(cb_log', o) = 1
          /\ DOMAIN cb_log' \subseteq pg_live]_vars

\* thread t has had the handshake of the loop the collector is in
Shaken(t) == t <= gi

\* C23: every mutator thread gets the four handshakes of a cycle, once
\* each and in order: snoop on, trace_on on, (alloc_color black, snoop
\* off), trace_on off. A handshake starts only when the one before is
\* complete for all threads, and the fourth only with the mark stack empty.
C23_FourHandshakesInOrder ==
    \A t \in Mut :
        /\ gpc = "hs1" =>
              /\ gcl[t].snoop = Shaken(t)
              /\ ~gcl[t].trace_on
        /\ gpc = "hs2" =>
              /\ gcl[t].snoop
              /\ gcl[t].trace_on = Shaken(t)
        /\ gpc = "flip" => gcl[t].snoop /\ gcl[t].trace_on
        /\ gpc = "hs3" =>
              /\ gcl[t].trace_on
              /\ gcl[t].snoop = ~Shaken(t)
              /\ gcl[t].alloc_color
                    = (IF Shaken(t) THEN m_color_black ELSE m_color_white)
        /\ gpc \in {"drain", "corelib", "push_roots", "mark"} =>
              /\ gcl[t].trace_on /\ ~gcl[t].snoop
              /\ gcl[t].alloc_color = m_color_black
        /\ gpc = "hs4" =>
              /\ m_mark_stack = <<>>
              /\ gcl[t].trace_on = ~Shaken(t)
              /\ ~gcl[t].snoop /\ gcl[t].alloc_color = m_color_black
        /\ ~InCycle \/ gpc \in {"sweep_init", "sweep", "prep_free", "prep"} =>
              /\ ~gcl[t].trace_on /\ ~gcl[t].snoop
              /\ gcl[t].alloc_color = m_color_black
C23_Witness ==
    /\ gpc = "sweep_init" /\ mops >= 1
    /\ \A t \in Mut : ~gcl[t].trace_on /\ gcl[t].alloc_color = m_color_black

\* thread t is inside gc_new or gc_update
InBarrierOrNew(t) == mpc[t] \in {"new_alloc", "new_link", "upd_store"}

\* C24: the colour flip is invisible to the mutators: from the swap of
\* m_color_black and m_color_white until its own alloc_color is updated,
\* no mutator thread is executing gc_new or gc_update.
C24_FlipInvisible ==
    \A t \in Mut : (gpc = "hs3" /\ ~Shaken(t)) => ~InBarrierOrNew(t)

\* ------------------------------------------------------------------ preemption
\* gc_new and gc_update called by mutators that hold any nesting of
\* scheduler_preempt_disable, with no collector running
InitSpecPreempt ==
    /\ InitMachine
    /\ preempt_count \in [Mut -> 0..MaxNest]
    /\ InitGCOver(ObjN)
    /\ InitHeapIdle /\ InitSemIdle /\ InitPagesIdle /\ InitJitIdle
NextPreempt ==
    \/ \E t \in Mut : GcNewAlloc(t)
    \/ \E t \in Mut : GcNewColor(t)
    \/ \E t \in Mut : GcNewLink(t)
    \/ \E t \in Mut : \E o \in Acc(t), n \in stack[t] \cup {NULL} :
          GcUpdateBarrier(t, o, n)
    \/ \E t \in Mut : GcUpdateStore(t)
SpecPreempt == InitSpecPreempt /\ [][NextPreempt]_vars

\* C25: heap_alloc and the push onto the all-objects list in gc_new, and
\* every step of gc_update, run with the thread's preemption-disable
\* counter above zero; gc_new and gc_update return with the counter at
\* the value it had on entry.
C25_PreemptDisabledAcross ==
    \A t \in Mut :
        /\ InBarrierOrNew(t) =>
              /\ preempt_count[t] > 0
              /\ preempt_count[t] = preempt_entry[t] + 1
        /\ mpc[t] = "idle" => preempt_count[t] = preempt_entry[t]
C25_Witness ==
    \E t \in Mut :
        /\ mpc[t] = "idle" /\ preempt_entry[t] = 1 /\ preempt_count[t] = 1
        /\ mo[t] # NULL /\ fld[mo[t]] # NULL
        /\ m_all_objects # g_corelib

\* the step is gc_conductor_wake's test of m_gc_running, made by thread t
\* from gc_wait (mutex held) or from gc_wake
WakeRequestStep(t) ==
    \/ mpc[t] = "wait_wake" /\ mpc'[t] # "wait_wake"
    \/ mpc[t] = "idle" /\ mpc'[t] \in {"idle", "wake_set"} /\ mops' # mops

\* C26: a gc_wake or gc_wait request that finds m_gc_running true sends no
\* signal and leaves the conductor as it is: the flag stays true, the
\* collector is not woken and no further cycle is queued.
C26_WakeIdempotent ==
    [][\A t \in Mut :
          (WakeRequestStep(t) /\ m_gc_running) =>
              UNCHANGED <<m_gc_running, wake_waiting, gpc, cycle>>]_vars
C26_Witness ==
    \E t \in Mut : mpc[t] = "wait_park" /\ m_gc_running /\ wake_waiting

\* the addresses of the slots of thread t's log buffer
LogSlots(t) == {LogAddr(t, pos) : pos \in 0..Len(gcl[t].buffer)}

\* C27: when a thread whose trace_on is set runs gc_update on a white
\* object whose log_pointer is null, the barrier publishes the log: the
\* object's log_pointer is then non-null and points into that thread's
\* log buffer.
C27_BarrierPublishesLog ==
    [][\A t \in Mut :
          (/\ mpc[t] = "idle" /\ mpc'[t] = "upd_store"
           /\ gcl[t].trace_on
           /\ color[mo'[t]] = m_color_white
           /\ log_pointer[mo'[t]] = NULL) =>
              /\ log_pointer'[mo'[t]] # NULL
              /\ log_pointer'[mo'[t]] \in LogSlots(t)]_vars

\* C28: a non-null reference stored through gc_update by a thread whose
\* snoop flag is on goes into that thread's snooped set; the harvest moves
\* every snooped reference into the global root set and leaves the snooped
\* sets empty before mark starts; and every root is black, hence not swept,
\* when the sweep of that cycle is over.
C28_SnoopedBecomeRoots ==
    [][/\ \A t \in Mut :
             (mpc[t] = "upd_store" /\ mpc'[t] = "idle" /\ gcl[t].snoop
                 /\ mnew[t] # NULL) => mnew[t] \in Range(gcl'[t].snooped)
       /\ \A t \in Mut :
             gpc = "drain" =>
                 Range(gcl[t].snooped) \subseteq
                     Range(m_roots') \cup Range(gcl'[t].snooped)
       /\ gpc' = "push_roots" => \A t \in Mut : gcl'[t].snooped = <<>>
       /\ gpc' = "prep_free" =>
             \A o \in Range(m_roots') : color'[o] = m_color_black']_vars

\* the walk from the head ends at NULL: no node is met twice
ListAcyclic ==
    AllObjects = <<>> \/ next[AllObjects[Len(AllObjects)]] = NULL

\* C29: in every reachable state, whatever the interleaving of gc_new and
\* sweep, every node reachable from the all-objects head is black or white,
\* never blue, and the list is acyclic, no object appearing twice.
C29_AllObjectsListInvariant ==
    /\ \A o \in AllObjectsSet : color[o] \in {m_color_black, m_color_white}
    /\ ListAcyclic

\* the next iteration of sweep has to re-find the predecessor of swept and
\* its walk from the head never meets swept
SweepStuck ==
    /\ gpc = "sweep" /\ swept # NULL /\ color[swept] = m_color_white
    /\ last = NULL /\ m_all_objects # swept
    /\ FindLast(m_all_objects, swept, NObj + 1) \in {Hang, Fault}
\* gc_new has pushed o: it has a colour and no thread is still linking it
Pushed(o) ==
    /\ color[o] # COLOR_BLUE
    /\ \A t \in Mut : ~(mo[t] = o /\ mpc[t] \in {"new_alloc", "new_link"})

\* C30: under every interleaving of gc_new's pushes with sweep, sweep
\* terminates (its re-find of the predecessor after a failed
\* compare-exchange meets the swept object), every object pushed and not
\* swept is reachable from the head, and no swept object is.
C30_ExcisionSafe ==
    /\ gpc # "hang" /\ ~SweepStuck
    /\ \A o \in Obj : Pushed(o) => o \in AllObjectsSet
    /\ \A o \in AllObjectsSet : color[o] # COLOR_BLUE


\* ------------------------------------------------ gc.c: gc_wait and the cycle
\* C31: gc_wait returns only after a collection cycle that began after the
\* call has run to completion, also when the call arrives while a cycle is
\* already in progress.  Calls made during boot, before the first cycle has
\* begun, are left out: a thread at the return of gc_wait whose call saw a
\* begun cycle has seen a later cycle end.
C31_GcWaitCoversFullCycle ==
    \A t \in Mut :
        (mpc[t] = "wait_unlock" /\ wait_from[t] > 0) => cycle > wait_from[t]


\* C32: a wake is never lost.  Under fair scheduling, whenever m_gc_running is
\* true while the collector thread is parked on the gc_wake condition, the
\* collector eventually leaves the wait (and goes on to start a cycle).
C32_WakeNeverLost ==
    (m_gc_running /\ gpc = "g_parked") ~> (gpc # "g_parked")


(***************************************************************************)
(* init_gc: the boot thread readies the collector thread and waits for it  *)
(* to go idle; the other threads run once init_gc has returned.            *)
(***************************************************************************)
BootThread == 1

\* init_gc, line 405: mutex_lock(&m_gc_mutex); gc_conductor_wait follows
\* (GcWaitPark, GcWaitRelock) and line 407 unlocks as gc_wait's line 377 does
InitGcLock(t) ==
    /\ Running /\ mpc[t] = "init_gc"
    /\ m_gc_mutex = NoThread
    /\ m_gc_mutex' = t
    /\ mpc' = [mpc EXCEPT ![t] = "wait_park"]
    /\ UNCHANGED <<machvars, heapvars, m_color_black, m_color_white, gcl, collvars,
                   m_gc_running, wake_waiting, done_waiting, mo, mnew, preemptvars,
                   stack, histvars>>

\* init_gc has returned
Booted == mpc[BootThread] = "idle" \/ mops > 0

\* the boot thread's next step inside init_gc
InitGcStep(t) ==
    ~Booted /\ (InitGcLock(t) \/ GcWaitPark(t) \/ GcWaitRelock(t) \/ GcWaitUnlock(t))

InitSpecInit ==
    /\ InitMachine /\ InitPreemptOff
    /\ InitGCFrom(ObjN, [t \in Mut |-> IF t = BootThread THEN "init_gc" ELSE "idle"])
    /\ InitHeapIdle /\ InitSemIdle /\ InitPagesIdle /\ InitJitIdle
NextInit ==
    \/ InitGcStep(BootThread)
    \/ Booted /\ \E t \in Mut : GcWaitLock(t)
    \/ Booted /\ \E t \in Mut : GcWakeCheck(t)
    \/ Booted /\ \E t \in Mut : ConductorStep(t)
    \/ NextCollector
SpecInit ==
    /\ InitSpecInit /\ [][NextInit]_vars
    /\ WF_vars(NextCollector)
    /\ WF_vars(InitGcStep(BootThread))
    /\ \A t \in Mut : WF_vars(Booted /\ ConductorStep(t))

\* C33: init_gc always terminates: under fair scheduling of the boot thread
\* and the freshly readied collector thread, init_gc eventually returns.
C33_InitGcTerminates == <>Booted


(***************************************************************************)
(* heap_alloc when palloc runs out of pages while it backs an object of    *)
(* one page or more: k pages are handed out, the next palloc and every     *)
(* later one of the call return NULL.                                      *)
(***************************************************************************)
MaxOomPages == 2
OomSizes == {SIZE_4KB, 2 * SIZE_4KB, SIZE_2MB \div 2, SIZE_2MB, 2 * SIZE_2MB,
             SIZE_512MB}

\* the size of the pages that back a slot of aligned_size bytes
BackingPage(aligned_size) == IF aligned_size >= SIZE_2MB THEN SIZE_2MB ELSE SIZE_4KB
\* line 206 / 271: the i-th page-table entry of the object at o
SlotEntry(o, aligned_size, i) ==
    <<o.pool, (o.off \div BackingPage(aligned_size)) + i>>
SlotEntries(o, aligned_size) ==
    {SlotEntry(o, aligned_size, i) :
         i \in 0..((aligned_size \div BackingPage(aligned_size)) - 1)}
\* the present PML2 (2 MiB regime) or PML1 (4 KiB regime) entries
PresentEntries(aligned_size) == IF aligned_size >= SIZE_2MB THEN pg_pml2 ELSE pg_pml1

\* the physical address of the n-th page palloc hands out: never 0
PhysOfPage(n, page_size) == n * page_size
\* line 228 / 292: .frame = DIRECT_TO_PHYS(page) >> 12
FrameOf(phys) == phys \div SIZE_4KB
\* line 213 / 278: uintptr_t phys = PAGE_TABLE_PML2[pml2i + i].frame
RollbackPhys(frame) == frame

\* line 212-217 / 277-282: while (i--) pfree(PHYS_TO_DIRECT(phys)), from i = k
RECURSIVE RollbackFrees(_, _, _)
RollbackFrees(i, first, page_size) ==
    IF i = 0 THEN <<>>
    ELSE <<RollbackPhys(FrameOf(PhysOfPage(first + i, page_size)))>>
             \o RollbackFrees(i - 1, first, page_size)

\* line 238-240 / 300-302: continue; with palloc failing, the later slots of
\* the walk that are present and blue
LaterBacked(o, aligned_size) ==
    {q \in PoolSlots(o.pool, aligned_size) :
        /\ q.off > o.off
        /\ SlotEntry(q, aligned_size, 0) \in PresentEntries(aligned_size)
        /\ q \notin pg_live}

PgAllocOom(size, k) ==
    /\ Running /\ pg_ops < MaxPgOps
    /\ ~TooLarge(size)
    /\ pg_ops' = pg_ops + 1 /\ pg_op' = "alloc"
    /\ ha_size' = size
    /\ \E aligned_size \in AlignedSizes(size) :
       \E pidx \in PoolIdxs(aligned_size) :
       /\ pidx \in 0..(POOL_COUNT - 1)
       /\ aligned_size >= SIZE_4KB
       /\ ha_pool' = pidx
       /\ pg_locks' = pg_locks + 1
       /\ LET o == FirstBlueSlot(pidx, aligned_size)
              page_size == BackingPage(aligned_size)
              got == {SlotEntry(o, aligned_size, i) : i \in 0..(k - 1)}
              later == LaterBacked(o, aligned_size)
          IN  /\ o # NoObject
              /\ SlotEntry(o, aligned_size, 0) \notin PresentEntries(aligned_size)
              /\ k < aligned_size \div page_size
              /\ pg_pml3' = pg_pml3 \cup {PML3_INDEX(o)}
              /\ pg_pml2' = pg_pml2 \cup (IF aligned_size >= SIZE_2MB THEN got
                                          ELSE {PML2_INDEX(o)})
              /\ pg_pml1' = pg_pml1 \cup (IF aligned_size >= SIZE_2MB THEN {} ELSE got)
              /\ pg_palloc' = pg_palloc + k + 1
              /\ ha_oom' = o
              /\ ha_got' = {PhysOfPage(pg_palloc + i, page_size) : i \in 1..k}
              /\ ha_freed' = RollbackFrees(k, pg_palloc, page_size)
              /\ IF later = {}
                 THEN /\ ha_res' = NoObject
                      /\ UNCHANGED <<pg_live, pg_dirty2, pg_dirty1>>
                 ELSE LET q == CHOOSE q \in later : \A r \in later : q.off <= r.off
                      IN  /\ ha_res' = q
                          /\ pg_live' = pg_live \cup {q}
                          /\ StoreDirties(q)
    /\ UNCHANGED <<hf_ptr, hf_res, cb_log, dirty_iter, panic, pgRest>>

NextOom ==
    \/ \E size \in OomSizes : PgAlloc(size)
    \/ \E size \in OomSizes, k \in 0..MaxOomPages : PgAllocOom(size, k)
    \/ \E o \in pg_live : PgSweep(o)
SpecOom == InitSpecPages /\ [][NextOom]_vars

\* C34: when palloc fails while heap_alloc backs a multi-page object, every
\* page already acquired for the object is freed exactly once and no
\* page-table entry that covers the object is left present.
C34_OomRolledBack ==
    (pg_op = "alloc" /\ ha_oom # NoObject) =>
        /\ Range(ha_freed) = ha_got
        /\ Len(ha_freed) = Cardinality(ha_got)
        /\ \E aligned_size \in AlignedSizes(ha_size) :
               SlotEntries(ha_oom, aligned_size) \cap PresentEntries(aligned_size) = {}


\* -------------------------------------------------- heap.c: try-lock skipping
\* C35: heap_alloc returns null only if the pool holds no blue slot; it never
\* returns null merely because other cores held region locks when it tried
\* them.
C35_NoSpuriousNull ==
    \A t \in Mut :
        (mpc[t] = "heap_exit" /\ mo[t] = NULL) =>
            \A o \in HeapSlots \ {NULL} : color[o] # COLOR_BLUE


(***************************************************************************)
(* The region locks in heap_iterate_objects and heap_iterate_dirty_objects *)
(* (the two functions take and release them with the same code), run by    *)
(* any thread next to heap_alloc on the other cores.                       *)
(***************************************************************************)
\* heap_iterate_*, line 370 / 459: last_lock_taken = NULL, and the loops begin
HeapIterEnter(t) ==
    /\ Running /\ mpc[t] = "idle" /\ mops < MaxMutOps
    /\ iter_pool' = [iter_pool EXCEPT ![t] = pool_idx]
    /\ subpool_idx' = [subpool_idx EXCEPT ![t] = 0]
    /\ last_lock_taken' = [last_lock_taken EXCEPT ![t] = NoLock]
    /\ mpc' = [mpc EXCEPT ![t] = "iter_scan"]
    /\ mops' = mops + 1
    /\ UNCHANGED <<nullMapped, semvars, pgvars, jitvars, panic, stripe, m_heap_locks, heapvars,
                   m_color_black, m_color_white, gcl, collvars, condvars, mo, mnew,
                   preemptvars, stack, cycle, wait_from, reachAtHarvest, reachAtStart,
                   quiet, overwritten, bornBlack, bornInCycle, sweptNew>>

\* line 383-387 / 472-476: at the first subpool of a region, unlock the last
\* lock taken; spinlock_lock then spins on the new one
HeapIterUnlock(t) ==
    /\ Running /\ mpc[t] = "iter_scan"
    /\ iter_pool[t] \in IterPools /\ subpool_idx[t] < NSubpools
    /\ (subpool_idx[t] % SUBPOOLS_PER_LOCK) = 0
    /\ last_lock_taken[t] # NoLock
    /\ m_heap_locks' = spinlock_unlock(m_heap_locks, last_lock_taken[t])
    /\ last_lock_taken' = [last_lock_taken EXCEPT ![t] = NoLock]
    /\ UNCHANGED <<nullMapped, semvars, pgvars, jitvars, panic, stripe, subpool_idx, iter_pool,
                   gcvars>>

\* line 379-449 / 468-519: one iteration of the loop over the subpools, after
\* spinlock_lock has got the region's lock at the first subpool of a region;
\* line 373 / 462: the next pool after the last subpool
HeapIterSubpool(t) ==
    /\ Running /\ mpc[t] = "iter_scan"
    /\ LET p == iter_pool[t]
           i == subpool_idx[t]
           first == (i % SUBPOOLS_PER_LOCK) = 0
           li == LockIndexOf(p, i)
       IN
       IF p \notin IterPools
       THEN /\ mpc' = [mpc EXCEPT ![t] = "iter_exit"]
            /\ UNCHANGED <<m_heap_locks, subpool_idx, last_lock_taken, iter_pool>>
       ELSE IF i >= NSubpools
       THEN /\ iter_pool' = [iter_pool EXCEPT ![t] = p + 1]
            /\ subpool_idx' = [subpool_idx EXCEPT ![t] = 0]
            /\ UNCHANGED <<m_heap_locks, last_lock_taken, mpc>>
       ELSE IF first
       THEN /\ last_lock_taken[t] = NoLock
            /\ m_heap_locks[li] = NoThread
            /\ m_heap_locks' = [m_heap_locks EXCEPT ![li] = t]
            /\ last_lock_taken' = [last_lock_taken EXCEPT ![t] = li]
            /\ subpool_idx' = [subpool_idx EXCEPT ![t] = i + 1]
            /\ UNCHANGED <<iter_pool, mpc>>
       ELSE /\ subpool_idx' = [subpool_idx EXCEPT ![t] = i + 1]
            /\ UNCHANGED <<m_heap_locks, last_lock_taken, iter_pool, mpc>>
    /\ UNCHANGED <<nullMapped, semvars, pgvars, jitvars, panic, stripe, heapvars, m_color_black,
                   m_color_white, gcl, collvars, condvars, mo, mnew, preemptvars, stack,
                   histvars>>

\* line 452-455 / 522-525: unlock the last lock taken; return
HeapIterExit(t) ==
    /\ Running /\ mpc[t] = "iter_exit"
    /\ m_heap_locks' = IF last_lock_taken[t] # NoLock
                       THEN spinlock_unlock(m_heap_locks, last_lock_taken[t])
                       ELSE m_heap_locks
    /\ last_lock_taken' = [last_lock_taken EXCEPT ![t] = NoLock]
    /\ mpc' = [mpc EXCEPT ![t] = "idle"]
    /\ UNCHANGED <<nullMapped, semvars, pgvars, jitvars, panic, stripe, subpool_idx, iter_pool,
                   heapvars, m_color_black, m_color_white, gcl, collvars, condvars, mo,
                   mnew, preemptvars, stack, histvars>>

NextLocks ==
    \E t \in Mut :
        \/ HeapAllocEnter(t) \/ HeapAllocSubpool(t) \/ HeapAllocExit(t)
        \/ GcNewColor(t) \/ GcNewLink(t)
        \/ HeapIterEnter(t) \/ HeapIterUnlock(t) \/ HeapIterSubpool(t)
        \/ HeapIterExit(t)
SpecLocks == InitSpecHeap /\ [][NextLocks]_vars

\* the region locks thread t holds
LocksHeldBy(t) == {l \in DOMAIN m_heap_locks : m_heap_locks[l] = t}
\* the subpool of a slot
SubpoolOf(o) == (o - 1) \div SlotsPerSubpool

\* C36: heap lock discipline.  heap_alloc has inspected the slots of a subpool
\* (it selected one of them, or moved on inside the region) only with the lock
\* of that subpool's region held; heap_alloc and the two iterations hold at
\* most one region lock at any time, the one in last_lock_taken, and none
\* outside the call.
C36_LockDiscipline ==
    \A t \in Mut :
        /\ Cardinality(LocksHeldBy(t)) <= 1
        /\ LocksHeldBy(t) = {last_lock_taken[t]} \ {NoLock}
        /\ mpc[t] \notin {"heap_scan", "heap_exit", "iter_scan", "iter_exit"}
              => LocksHeldBy(t) = {}
        /\ (mpc[t] = "heap_exit" /\ mo[t] # NULL)
              => m_heap_locks[LockIndex(SubpoolOf(mo[t]))] = t
        /\ (mpc[t] = "heap_scan" /\ subpool_idx[t] < NSubpools
            /\ (subpool_idx[t] % SUBPOOLS_PER_LOCK) # 0)
              => m_heap_locks[LockIndex(subpool_idx[t])] = t
\* a thread has returned from an iteration and holds no lock while another
\* thread is inside heap_alloc with a slot selected under its region's lock
C36_Witness ==
    \E t1, t2 \in Mut :
        /\ mpc[t1] = "idle" /\ iter_pool[t1] = pool_idx + NIterPools
        /\ LocksHeldBy(t1) = {}
        /\ mpc[t2] = "heap_exit" /\ mo[t2] # NULL /\ LocksHeldBy(t2) # {}


(***************************************************************************)
(* The lock striping of init_heap and heap_alloc as a function of the      *)
(* number of cores, computed for two (pool, subpool) pairs.                *)
(***************************************************************************)
StripeCpus == {1, 2, 3, 4, 8, 16, 26, 27, 32, 64, 128, 256, 257, 511}
StripePools == {0, 1, POOL_COUNT - 1}
StripeSubpools == {0, 1, 255, 256, SUBPOOLS_COUNT - 1}

\* line 65: #define SUBPOOLS_PER_LOCK (512 / get_cpu_count())
SubpoolsPerLock(cpus) == 512 \div cpus
\* line 84: malloc(POOL_COUNT * SUBPOOLS_PER_LOCK * sizeof(spinlock_t))
HeapLocksLen(cpus) == POOL_COUNT * SubpoolsPerLock(cpus)
\* line 165, 172: the lock region of a subpool
RegionOf(cpus, sp) == sp \div SubpoolsPerLock(cpus)
\* line 172: pool_idx * POOL_COUNT + subpool_idx / SUBPOOLS_PER_LOCK
StripeIndex(cpus, p, sp) == p * POOL_COUNT + RegionOf(cpus, sp)

\* init_heap with cpus cores, then heap_alloc's lock index for the subpools
\* a and b, each a <<pool, subpool>>
StripeCompute(cpus, a, b) ==
    /\ Running /\ stripe = NoStripe
    /\ stripe' = [cpus |-> cpus,
                  len |-> HeapLocksLen(cpus),
                  regions |-> Cardinality({RegionOf(cpus, sp) :
                                              sp \in 0..(SUBPOOLS_COUNT - 1)}),
                  a |-> <<a[1], RegionOf(cpus, a[2])>>,
                  b |-> <<b[1], RegionOf(cpus, b[2])>>,
                  ia |-> StripeIndex(cpus, a[1], a[2]),
                  ib |-> StripeIndex(cpus, b[1], b[2])]
    /\ UNCHANGED <<nullMapped, panic, m_heap_locks, subpool_idx, last_lock_taken,
                   iter_pool, gcvars, semvars, pgvars, jitvars>>

NextStripe ==
    \E cpus \in StripeCpus :
    \E a \in StripePools \X StripeSubpools, b \in StripePools \X StripeSubpools :
        StripeCompute(cpus, a, b)
SpecStripe == InitSpecGC /\ [][NextStripe]_vars

\* C37: for every cpu_count the 512 subpools of a pool fall into exactly
\* cpu_count lock regions, the lock index of a (pool, region) pair lies inside
\* the allocated lock array, and different pairs have different indices.
C37_StripingWellFormed ==
    stripe # NoStripe =>
        /\ stripe.regions = stripe.cpus
        /\ stripe.ia \in 0..(stripe.len - 1)
        /\ stripe.ib \in 0..(stripe.len - 1)
        /\ stripe.a # stripe.b => stripe.ia # stripe.ib


(***************************************************************************)
(* heap_iterate_dirty_objects in steps, next to stores of managed code on  *)
(* other cores: the walk over the 4 KiB pages of the pools of objects      *)
(* below 2 MiB, one step to test a page and make its callbacks, one to     *)
(* clear its dirty bit.                                                    *)
(***************************************************************************)
\* a position of the walk: <<pool, pass over the pool's tables, PML1 index>>
WalkPositions ==
    {<<e[1], s, e[2]>> :
        e \in UNION {Pml1Walked(p) :
                        p \in {p \in 0..(POOL_COUNT - 1) :
                                  pool_object_size(p) < SIZE_2MB}},
        s \in 0..(IterPasses - 1)}
\* the order of the loops of line 373, 379 and 425
WalkBefore(x, y) ==
    \/ x[1] < y[1]
    \/ x[1] = y[1] /\ x[2] < y[2]
    \/ x[1] = y[1] /\ x[2] = y[2] /\ x[3] < y[3]
WalkAhead == {x \in WalkPositions : WalkBefore(dirty_iter.pos, x)}
WalkNext == CHOOSE x \in WalkAhead : \A y \in WalkAhead : x = y \/ WalkBefore(x, y)

\* bump the callback count of every argument in calls
LogCalls(log, calls) ==
    [a \in DOMAIN log \cup calls |->
        (IF a \in DOMAIN log THEN log[a] ELSE 0) + (IF a \in calls THEN 1 ELSE 0)]

\* line 369-373: the call begins
DirtyIterBegin ==
    /\ Running /\ pg_ops < MaxDirtyOps /\ dirty_iter.pc = "off"
    /\ pg_ops' = pg_ops + 1 /\ pg_op' = "iterating"
    /\ NoOom
    /\ dirty_iter' = [pc |-> "walk", pos |-> <<0 - 1, 0, 0>>, pending |-> {}]
    /\ cb_log' = <<>>
    /\ UNCHANGED <<pg_pml3, pg_pml2, pg_pml1, pg_dirty2, pg_dirty1, pg_live, pg_locks,
                   pg_palloc, ha_size, ha_pool, ha_res, hf_ptr, hf_res, panic, pgRest>>

\* line 425-441: the next present page; if it is dirty, its callbacks
DirtyIterPage ==
    /\ Running /\ dirty_iter.pc = "walk" /\ WalkAhead # {}
    /\ LET x == WalkNext
           e == <<x[1], x[3]>>
       IN  IF e \in pg_dirty1
           THEN /\ cb_log' = LogCalls(cb_log, CallsOfPml1(e))
                /\ dirty_iter' = [pc |-> "called", pos |-> x,
                                  pending |-> dirty_iter.pending \ CallsOfPml1(e)]
           ELSE /\ dirty_iter' = [dirty_iter EXCEPT !.pos = x]
                /\ UNCHANGED cb_log
    /\ UNCHANGED <<pg_pml3, pg_pml2, pg_pml1, pg_dirty2, pg_dirty1, pg_live, pg_locks,
                   pg_palloc, pg_op, pg_ops, ha_size, ha_pool, ha_res, hf_ptr, hf_res,
                   ha_oom, ha_got, ha_freed, panic, pgRest>>

\* line 443-445: PAGE_TABLE_PML1[pml1i].dirty = 0
DirtyIterClear ==
    /\ Running /\ dirty_iter.pc = "called"
    /\ pg_dirty1' = pg_dirty1 \ {<<dirty_iter.pos[1], dirty_iter.pos[3]>>}
    /\ dirty_iter' = [dirty_iter EXCEPT !.pc = "walk"]
    /\ UNCHANGED <<pg_pml3, pg_pml2, pg_pml1, pg_dirty2, pg_live, pg_locks,
                   pg_palloc, pg_op, pg_ops, ha_size, ha_pool, ha_res, hf_ptr, hf_res,
                   cb_log, ha_oom, ha_got, ha_freed, panic, pgRest>>

\* line 401-422, 452-456: the pools of 2 MiB objects and more, whose PML2
\* dirty bits the walk leaves set; the call returns
DirtyIterEnd ==
    /\ Running /\ dirty_iter.pc = "walk" /\ WalkAhead = {}
    /\ pg_op' = "iterate"
    /\ dirty_iter' = [dirty_iter EXCEPT !.pc = "off"]
    /\ cb_log' = LogCalls(cb_log, {CallOfPml2(e) : e \in DirtyWalked2})
    /\ UNCHANGED <<pg_pml3, pg_pml2, pg_pml1, pg_dirty2, pg_dirty1, pg_live, pg_locks,
                   pg_palloc, pg_ops, ha_size, ha_pool, ha_res, hf_ptr, hf_res,
                   ha_oom, ha_got, ha_freed, panic, pgRest>>

\* managed code on another core stores into a field of the live object o
\* while the walk is under way
DirtyIterStore(o) ==
    /\ Running /\ pg_ops < MaxDirtyOps /\ o \in pg_live
    /\ dirty_iter.pc # "off"
    /\ pg_ops' = pg_ops + 1
    /\ UNCHANGED <<pg_pml3, pg_pml2, pg_pml1>>
    /\ StoreDirties(o)
    /\ dirty_iter' = [dirty_iter EXCEPT !.pending = @ \cup {o}]
    /\ UNCHANGED <<pg_live, pg_locks, pg_palloc, pg_op, ha_size, ha_pool, ha_res,
                   hf_ptr, hf_res, cb_log, ha_oom, ha_got, ha_freed, panic, pgRest>>

NextDirtyRace ==
    \/ dirty_iter.pc = "off" /\ \E size \in DirtySizes : DirtyAlloc(size)
    \/ dirty_iter.pc = "off" /\ \E o \in pg_live : PgStore(o)
    \/ DirtyIterBegin \/ DirtyIterPage \/ DirtyIterClear \/ DirtyIterEnd
    \/ \E o \in pg_live : DirtyIterStore(o)
SpecDirtyRace == InitSpecPages /\ [][NextDirtyRace]_vars

\* C38: no write is lost by the dirty iteration.  When the iteration returns,
\* every object that was stored to while it ran, and for which it made a
\* callback, either had that callback after the store or lies on a page whose
\* dirty bit is still set.
C38_NoWriteLost ==
    (pg_op = "iterate" /\ dirty_iter.pc = "off") =>
        \A o \in dirty_iter.pending \cap DOMAIN cb_log : PML1_INDEX(o) \in pg_dirty1


\* ------------------------------------------------- semaphore.c: the wait queue
\* the descriptors linked in the wait queue: those reached from
\* semaphore->waiters along wait_link
RECURSIVE LinkedFrom(_, _)
LinkedFrom(d, seen) ==
    IF d = NULL \/ d \in seen THEN seen ELSE LinkedFrom(wts[d].wait_link, seen \cup {d})
QueuedWaiters == LinkedFrom(sem_waiters, {})

\* C39: waiter accounting: whenever the semaphore's spinlock is free, nwait
\* equals the number of waiting-thread descriptors linked in the wait queue.
C39_WaiterAccounting ==
    (Running /\ sem_lock = NoThread) => sem_nwait = Cardinality(QueuedWaiters)


\* ------------------------------------------------------- the jitter: newobj
\* C40: in the code emitted for newobj the reference returned by gc_new is
\* stored into a slot of the shadow stack frame before any further call is
\* emitted: the instruction after the call of gc_new is the move of its
\* result into the frame.
C40_NewObjectRootedFirst ==
    \A i \in 1..Len(jit_code) :
        (jit_code[i].insn = "MIR_CALL" /\ jit_code[i].src = "gc_new") =>
            /\ i < Len(jit_code)
            /\ jit_code[i + 1] = MIR_MOV("frame", "MIR_T_I64", jit_code[i].dst)

====
